---------------------------- MODULE Spec2Model ----------------------------
(***************************************************************************)
(* Tenant resolution middleware of claveCRM and its tenant directory cache.*)
(*                                                                         *)
(* The repository holds three revisions of the middleware:                 *)
(*   rev 1  src/src/middleware.ts 1-103   (fetchProcessedTenantIds)        *)
(*   rev 2  src/src/middleware.ts 106-209 (fetchValidTenantSubdomains)     *)
(*   rev 3  src/src/app/(auth)/login/page.tsx 117-214 (redirecting one)    *)
(* The deployed revision and the environment are fixed in the initial      *)
(* state.  Strings are sequences of one-character strings, so that the     *)
(* string operations of the code (replace, endsWith, toLowerCase, ...) are *)
(* computed, not assumed.                                                  *)
(***************************************************************************)
EXTENDS Integers, Sequences, FiniteSets, TLC

VARIABLES
    rev,                 \* which revision of the middleware is deployed
    NEXT_PUBLIC_BASE_URL,\* process.env.NEXT_PUBLIC_BASE_URL (UNSET when absent)
    NEXT_PUBLIC_VERCEL_URL,\* process.env.NEXT_PUBLIC_VERCEL_URL (UNSET when absent)
    collection,          \* the collection get-tenants reads: "tenants" or "users"
    BASE_HOST,           \* const BASE_HOST, computed once when the module loads
    workload,            \* what clients send: "serial", "overlap", "hosts", "route"
    clock,               \* Date.now()
    store,               \* the documents of that collection (their domain / tenantId)
    storeUp,             \* whether the store can be read
    cachedTenantIds,     \* module-level cache: NULL or a list of tenant ids
    lastFetchTimestamp,  \* module-level cache: time of the lookup that stored it
    pc,                  \* per request slot: "idle", "fetch", "json", "done"
    req,                 \* per request slot: the inbound request
    now,                 \* per request slot: `now` captured by the lookup
    body,                \* per request slot: the body of the directory's answer
    out,                 \* per request slot: the response of the middleware
    lastDone,            \* the slot whose request finished in the last step
    provider,            \* which revision of the AuthProvider runs in the browser
    users,               \* the users collection: per document id, the document
    calls,               \* per session: its call of update/deleteUserInFirestore
    licenseInfo,         \* AuthProvider state: StoredLicenseInfo | null
    userCount,           \* AuthProvider state: number | null
    today,               \* new Date(), in days
    effectiveLicenseStatus, \* AuthProvider state
    roles,               \* the roles collection: per role id, its permissions
    licenses,            \* tenants/{id}/license/info: per organisation, the document
    firebaseUser,        \* AuthProvider state: the user of the last auth event
    currentUser,         \* AuthProvider state: User | null
    userPermissions,     \* AuthProvider state: string[]
    loading,             \* AuthProvider state
    isUserDataLoaded,    \* AuthProvider state
    callbacks,           \* per slot: an invocation of the onAuthStateChanged callback
    latest,              \* the slot of the callback of the last auth event
    accounts,            \* Firebase Authentication: the uids that have an account
    signups,             \* per session: its call of signup
    page,                \* the page that is mounted and the position of its effect
    db,                  \* Firestore: per collection and document id, the document
    leads,               \* page state: useState<Lead[]>
    orders,              \* page state: useState<Order[]>
    invoices,            \* page state: useState<Invoice[]>
    fetches,             \* per collection: the getDocs of the page not yet answered
    saveLead             \* the call of handleSaveLead

vars == <<rev, NEXT_PUBLIC_BASE_URL, NEXT_PUBLIC_VERCEL_URL, collection, BASE_HOST, workload,
          clock, store, storeUp, cachedTenantIds, lastFetchTimestamp, pc, req, now, body,
          out, lastDone,
          provider, users, calls, licenseInfo, userCount, today, effectiveLicenseStatus,
          roles, licenses, firebaseUser, currentUser, userPermissions, loading,
          isUserDataLoaded, callbacks, latest, accounts, signups,
          page, db, leads, orders, invoices, fetches, saveLead>>

---------------------------------------------------------------------------
(* Strings                                                                 *)

\* An absent optional string (a missing header, an unset variable, null).
\* Its one element is no character, so it differs from every string.
UNSET == <<"<unset>">>

\* The null reference of `string[] | null`; differs from every list, [] included.
NULL == {<<"<null>">>}

Digits == {"0", "1", "2", "3", "4", "5", "6", "7", "8", "9"}

UpperCase == <<"A","B","C","D","E","F","G","H","I","J","K","L","M",
               "N","O","P","Q","R","S","T","U","V","W","X","Y","Z">>
LowerCase == <<"a","b","c","d","e","f","g","h","i","j","k","l","m",
               "n","o","p","q","r","s","t","u","v","w","x","y","z">>

UpperSet == {UpperCase[i] : i \in 1..Len(UpperCase)}
LowerSet == {LowerCase[i] : i \in 1..Len(LowerCase)}
LowerOf == [c \in UpperSet |-> LowerCase[CHOOSE i \in 1..Len(UpperCase) : UpperCase[i] = c]]
UpperOf == [c \in LowerSet |-> UpperCase[CHOOSE i \in 1..Len(LowerCase) : LowerCase[i] = c]]

LowerChar(c) == IF c \in UpperSet THEN LowerOf[c] ELSE c
UpperChar(c) == IF c \in LowerSet THEN UpperOf[c] ELSE c

\* String.prototype.toUpperCase
toUpperCase(s) == [i \in 1..Len(s) |-> UpperChar(s[i])]

\* String.prototype.toLowerCase
toLowerCase(s) == [i \in 1..Len(s) |-> LowerChar(s[i])]

\* does `sub` occur in `s` at position i
OccursAt(s, sub, i) ==
    /\ i >= 1
    /\ i + Len(sub) - 1 <= Len(s)
    /\ \A k \in 1..Len(sub) : s[i + k - 1] = sub[k]

\* String.prototype.startsWith / endsWith / includes
startsWith(s, sub) == OccursAt(s, sub, 1)
endsWith(s, sub) == OccursAt(s, sub, Len(s) - Len(sub) + 1)

\* the first position from i on at which `sub` occurs in `s`; 0 when there is none
RECURSIVE IndexFrom(_, _, _)
IndexFrom(s, sub, i) ==
    IF i + Len(sub) - 1 > Len(s) THEN 0
    ELSE IF OccursAt(s, sub, i) THEN i
    ELSE IndexFrom(s, sub, i + 1)

\* String.prototype.indexOf, 1-based; 0 when `sub` does not occur
indexOf(s, sub) == IndexFrom(s, sub, 1)

includes(s, sub) == indexOf(s, sub) # 0

\* String.prototype.replace(sub, rep) with a string pattern: the FIRST
\* occurrence of `sub`, wherever it is, is replaced.
replace(s, sub, rep) ==
    LET i == indexOf(s, sub)
    IN  IF i = 0 THEN s
        ELSE SubSeq(s, 1, i - 1) \o rep \o SubSeq(s, i + Len(sub), Len(s))

\* s.replace(/:\d+$/, ''): a colon followed by one or more digits up to the
\* end of the string is removed.
RECURSIVE DigitsBefore(_, _)
DigitsBefore(s, i) ==
    IF i >= 1 /\ s[i] \in Digits THEN 1 + DigitsBefore(s, i - 1) ELSE 0

StripPort(s) ==
    LET d == DigitsBefore(s, Len(s))
    IN  IF d >= 1 /\ d < Len(s) /\ s[Len(s) - d] = ":"
        THEN SubSeq(s, 1, Len(s) - d - 1)
        ELSE s

\* s.replace(/^https?:\/\//, '')
StripProtocol(s) ==
    IF startsWith(s, <<"h","t","t","p","s",":","/","/">>)
    THEN SubSeq(s, 9, Len(s))
    ELSE IF startsWith(s, <<"h","t","t","p",":","/","/">>)
         THEN SubSeq(s, 8, Len(s))
         ELSE s

\* s.split('.')[0]
FirstLabel(s) ==
    LET i == indexOf(s, <<".">>)
    IN  IF i = 0 THEN s ELSE SubSeq(s, 1, i - 1)

\* s.split('/')[0]
FirstSegment(s) ==
    LET i == indexOf(s, <<"/">>)
    IN  IF i = 0 THEN s ELSE SubSeq(s, 1, i - 1)

---------------------------------------------------------------------------
(* Configuration                                                           *)

localhost == <<"l","o","c","a","l","h","o","s","t">>
localhost3000 == <<"l","o","c","a","l","h","o","s","t",":","3","0","0","0">>

\* values of NEXT_PUBLIC_BASE_URL: not set, a bare host, a URL with protocol and port
BaseUrls == { UNSET,
              <<"c","r","m",".","i","o">>,
              <<"h","t","t","p","s",":","/","/","c","r","m",".","i","o",":","8","0","8","0">> }

Revisions == {1, 2, 3}

\* `process.env.X || dflt`: an unset or empty variable gives the default
OrDefault(v, dflt) == IF v = UNSET \/ v = <<>> THEN dflt ELSE v

\* const BASE_HOST of revision r under the environment value e
BaseHostOf(r, e) ==
    CASE r = 1 -> StripPort(OrDefault(e, localhost))
      [] r = 2 -> StripPort(StripProtocol(OrDefault(e, localhost3000)))
      [] r = 3 -> StripProtocol(OrDefault(e, localhost3000))

\* const CACHE_DURATION_MS = 5 * 60 * 1000
CACHE_DURATION_MS == 5 * 60 * 1000

\* values of NEXT_PUBLIC_VERCEL_URL: not set, or the host of a preview deployment
preview_vercel_app == <<"p","v",".","v","e","r","c","e","l",".","a","p","p">>
VercelUrls == { UNSET, preview_vercel_app }

---------------------------------------------------------------------------
(* The environment: tenants, request slots, requests, time                 *)

acme == <<"a","c","m","e">>
beta == <<"b","e","t","a">>

\* tenant identifiers the directory may hold: acme comes and goes
TenantIds == {acme}

\* subdomain labels clients ask for: beta is no tenant
Labels == {acme, beta}

\* the address a deployment configured with e is reached at (port included)
PublicHost(e) == StripProtocol(OrDefault(e, localhost3000))

\* the Host header of a request to tenant label t of that deployment
TenantHost(t, e) == t \o <<".">> \o PublicHost(e)

\* Host header values of inbound requests
Hosts(e) ==
    { UNSET, PublicHost(e), toUpperCase(StripPort(PublicHost(e))) }
    \cup { TenantHost(t, e) : t \in Labels }

\* URL paths of inbound requests
Paths == { <<"/","d">>,
           <<"/","a","p","i","/","x">>,
           <<"/","f",".","j","s">> }

\* x-tenant-id header values a client may send
ClientTenantHeaders == { UNSET, <<"e","v","i","l">> }

Requests(e) == [host : Hosts(e), path : Paths, tenantHdr : ClientTenantHeaders]

\* a tenantId with a dot in it: the users collection holds any string
a_b == <<"a",".","b">>

\* tenant identifiers of the wide workload
WideTenantIds == {acme, a_b}

\* hosts of development workspaces, with and without a port
workstation_host == <<"w","s",".","c","l","o","u","d","w","o","r","k","s","t","a","t","i","o","n","s",".","d","e","v">>
idx_host == <<"x",".","a","p","p",".","i","d","x",".","d","e","v",":","9","0","0","0">>

\* a host with the base domain in the middle of tenant label t
InfixHost(t, e) ==
    SubSeq(t, 1, 2) \o <<".">> \o StripPort(PublicHost(e)) \o SubSeq(t, 3, Len(t))

\* Host header values of the wide workload: besides Hosts(e), a tenant label
\* and a base domain in upper case, a label with a dot, a bare label, a base
\* domain inside a label, the development hosts and the host of the preview
\* deployment
WideHosts(e) ==
    Hosts(e)
    \cup { TenantHost(toUpperCase(acme), e),
           acme, InfixHost(acme, e),
           acme \o <<".">> \o toUpperCase(PublicHost(e)),
           TenantHost(a_b, e),
           workstation_host, idx_host, preview_vercel_app }

\* the exempt paths of the wide workload
BypassPaths == (Paths \ {<<"/","d">>}) \cup { <<"/","_","n","e","x","t","/","c">>, <<"/","s","t","a","t","i","c","/","l">> }

\* the wide workload: every host on a page path, and hosts of every kind on
\* the exempt paths
HostsRequests(e) ==
    [host : WideHosts(e), path : {<<"/","d">>}, tenantHdr : ClientTenantHeaders]
    \cup [host : {UNSET, PublicHost(e), TenantHost(acme, e), TenantHost(beta, e),
                  workstation_host},
          path : BypassPaths, tenantHdr : ClientTenantHeaders]

\* the requests of the route workload
RouteRequests(e) ==
    [host : {PublicHost(e), TenantHost(acme, e)}, path : {<<"/","d">>}, tenantHdr : {UNSET}]

\* two request slots: requests may overlap in pairs
Procs == {"p1", "p2"}

\* The workloads.  Either one slot serves every request, one at a time, or
\* both slots serve overlapping requests for the tenant hosts.
OverlapRequests(e) ==
    [host : {TenantHost(acme, e)}, path : {<<"/","d">>}, tenantHdr : {UNSET}]
Workloads == {"serial", "overlap"}
Inbound(w, e, p) ==
    CASE w = "overlap" -> OverlapRequests(e)
      [] w = "serial" -> IF p = "p1" THEN Requests(e) ELSE {}
      [] w = "hosts" -> IF p = "p1" THEN HostsRequests(e) ELSE {}
      [] w = "route" -> IF p = "p1" THEN RouteRequests(e) ELSE {}

\* the clock advances in steps of half the cache duration
TickMs == CACHE_DURATION_MS \div 2
MaxTicks == 3
StartClock == CACHE_DURATION_MS

---------------------------------------------------------------------------
(* The middleware, as functions of the request                             *)

\* mutant: paths under /static/ are resolved like pages
Bypass_NoStatic(path) ==
    \/ startsWith(path, <<"/","a","p","i","/">>)
    \/ startsWith(path, <<"/","_","n","e","x","t","/">>)
    \/ includes(path, <<".">>)

\* the exempt paths: API routes, build assets, static files, anything with a dot
Bypass(path) ==
    \/ startsWith(path, <<"/","a","p","i","/">>)
    \/ startsWith(path, <<"/","_","n","e","x","t","/">>)
    \/ startsWith(path, <<"/","s","t","a","t","i","c","/">>)
    \/ includes(path, <<".">>)

cloudworkstations_dev ==
    <<"c","l","o","u","d","w","o","r","k","s","t","a","t","i","o","n","s",".","d","e","v">>
app_idx_dev == <<"a","p","p",".","i","d","x",".","d","e","v">>

\* process.env.NEXT_PUBLIC_VERCEL_URL && hostname.endsWith(...)
IsVercelPreview(h) ==
    /\ NEXT_PUBLIC_VERCEL_URL # UNSET
    /\ NEXT_PUBLIC_VERCEL_URL # <<>>
    /\ endsWith(h, NEXT_PUBLIC_VERCEL_URL)

IsDevHost(h) == endsWith(h, cloudworkstations_dev) \/ endsWith(h, app_idx_dev)

\* mutant: a missing Host header gives the empty hostname
RawHostname_NoFallback(r) == StripPort(IF r.host = UNSET THEN <<>> ELSE r.host)

\* (request.headers.get('host') || BASE_HOST).replace(/:\d+$/, '')
RawHostname(r) == StripPort(OrDefault(r.host, BASE_HOST))

\* `hostname` after the normalisations of the revision
Hostname(r) ==
    LET h == RawHostname(r)
    IN  CASE rev = 1 -> h
          [] rev = 2 -> IF IsVercelPreview(h) \/ IsDevHost(h) THEN BASE_HOST ELSE h
          [] rev = 3 -> IF IsDevHost(h) THEN BASE_HOST ELSE h

\* hostname.replace(`.${BASE_HOST}`, '')
potentialSubdomain(h) == replace(h, <<".">> \o BASE_HOST, <<>>)

\* the branch that treats the request as one to the base domain
IsBaseDomain(h) ==
    CASE rev = 1 -> \/ h = BASE_HOST
                    \/ FirstLabel(potentialSubdomain(h)) = <<"w","w","w">>
                    \/ IsVercelPreview(h)
      [] rev = 2 -> h = BASE_HOST
      [] rev = 3 -> toLowerCase(h) = toLowerCase(BASE_HOST)

\* the subdomain the revision goes on to validate for hostname h; UNSET when
\* it validates none
Candidate(h) ==
    IF IsBaseDomain(h) THEN UNSET
    ELSE CASE rev = 1 -> LET first == FirstLabel(potentialSubdomain(h))
                         IN  IF first # FirstLabel(BASE_HOST) /\ first # <<>>
                             THEN first ELSE UNSET
           [] rev \in {2, 3} -> potentialSubdomain(h)

\* revision 1 looks the directory up for every request it does not bypass,
\* revisions 2 and 3 only when the host is not the base domain
NeedsLookup(h) == rev = 1 \/ ~IsBaseDomain(h)

\* `tenantId` after validation of candidate c against validTenants; UNSET is null
TenantOf(c, validTenants) ==
    IF c # UNSET /\ c \in validTenants THEN c ELSE UNSET

\* new URL(url.pathname, `https://${BASE_HOST}`): the URL parser lower-cases
\* the host; the path begins with a single "/"
RedirectLocation(path) ==
    <<"h","t","t","p","s",":","/","/">> \o toLowerCase(BASE_HOST) \o path

\* mutant: a redirect without a status argument is a 302 (Found)
RedirectStatus_Found(init) == IF init = UNSET THEN 302 ELSE init

\* NextResponse.redirect(url, init): the status is init when it is a number,
\* init.status when given, and 307 (Temporary Redirect) otherwise
RedirectStatus(init) == IF init = UNSET THEN 307 ELSE init

\* mutant: every revision redirects the unknown subdomain
Redirects_EveryRevision(c, validTenants) ==
    /\ c # UNSET
    /\ c \notin validTenants

\* mutant: the unknown subdomain is handled as the base domain, never redirected
Redirects_Never(c, validTenants) == FALSE

\* only revision 3 redirects, when the host is not the base domain and its
\* candidate c is unknown
Redirects(c, validTenants) ==
    /\ rev = 3
    /\ c # UNSET
    /\ c \notin validTenants

\* requestHeaders after `if (tenantId) set(...) else delete(...)`
ForwardedTenantHeader(tenantId) ==
    IF tenantId # UNSET /\ tenantId # <<>> THEN tenantId ELSE UNSET

NoResponse ==
    [kind |-> "none", status |-> 0, tenantHdr |-> UNSET, location |-> UNSET,
     lookup |-> "none", validTenants |-> {}]

\* NextResponse.next(): the request goes on with its own headers
BypassResponse(r) ==
    [kind |-> "next", status |-> 200, tenantHdr |-> r.tenantHdr, location |-> UNSET,
     lookup |-> "none", validTenants |-> {}]

\* the response once validTenants is known; `lookup` records how the cache
\* answered ("none", "hit", "refreshed", "failed") and validTenants what it returned
Respond(r, lookup, validTenants) ==
    LET c == Candidate(Hostname(r))
    IN  IF Redirects(c, validTenants)
        THEN [kind |-> "redirect", status |-> RedirectStatus(UNSET), tenantHdr |-> UNSET,
              location |-> RedirectLocation(r.path), lookup |-> lookup,
              validTenants |-> validTenants]
        ELSE [kind |-> "next", status |-> 200,
              tenantHdr |-> ForwardedTenantHeader(TenantOf(c, validTenants)),
              location |-> UNSET, lookup |-> lookup,
              validTenants |-> validTenants]

---------------------------------------------------------------------------
(* The tenant directory cache                                              *)

\* a response body that is no { tenantIds: [...] }
MALFORMED == {<<"<malformed>">>}

\* mutant: whatever the body holds is taken as the list
HasTenantIds_Unchecked(data) == TRUE

\* data && Array.isArray(data.tenantIds)
HasTenantIds(data) == data # MALFORMED

\* mutant: the snapshot expires after half the cache duration
CacheFresh_HalfDuration(n) ==
    /\ cachedTenantIds # NULL
    /\ n - lastFetchTimestamp < CACHE_DURATION_MS \div 2

\* mutant: an empty list counts as no snapshot
CacheFresh_EmptyIsAbsent(n) ==
    /\ cachedTenantIds # NULL
    /\ cachedTenantIds # {}
    /\ n - lastFetchTimestamp < CACHE_DURATION_MS

\* mutant: the snapshot is never taken as fresh
CacheFresh_Never(n) == FALSE

\* cachedTenantIds && (now - lastFetchTimestamp < CACHE_DURATION_MS)
CacheFresh(n) ==
    /\ cachedTenantIds # NULL
    /\ n - lastFetchTimestamp < CACHE_DURATION_MS

\* mutant: with no snapshot every tenant id is taken as valid (fail-open)
CachedOrEmpty_FailOpen == IF cachedTenantIds = NULL THEN TenantIds ELSE cachedTenantIds

\* mutant: a failed refresh returns [] and drops the stale snapshot's answer
CachedOrEmpty_AlwaysEmpty == {}

\* cachedTenantIds || []
CachedOrEmpty == IF cachedTenantIds = NULL THEN {} ELSE cachedTenantIds

\* mutant: the timestamp is read again when the answer arrives
StoreSnapshot_Torn(tenantIds, n) ==
    /\ cachedTenantIds' = tenantIds
    /\ lastFetchTimestamp' = clock

\* cachedTenantIds = data.tenantIds; lastFetchTimestamp = now;
StoreSnapshot(tenantIds, n) ==
    /\ cachedTenantIds' = tenantIds
    /\ lastFetchTimestamp' = n

\* mutant: a failure clears the snapshot
\* mutant: a failed refresh is remembered as an attempt
KeepSnapshot_Touches ==
    /\ cachedTenantIds' = (IF cachedTenantIds = NULL THEN {} ELSE cachedTenantIds)
    /\ lastFetchTimestamp' = clock

KeepSnapshot_Clears ==
    /\ cachedTenantIds' = NULL
    /\ UNCHANGED lastFetchTimestamp

\* the failure paths assign nothing
KeepSnapshot == UNCHANGED <<cachedTenantIds, lastFetchTimestamp>>

---------------------------------------------------------------------------
(* The tenant directory: GET /api/get-tenants                              *)
(* A document of the collection is modelled by the one field the route     *)
(* reads: `domain` in the tenants collection, `tenantId` in the users      *)
(* collection.                                                             *)

www == <<"w","w","w">>

\* (process.env.NEXT_PUBLIC_BASE_URL || '').replace(/:\d+$/, '')
baseDomain == StripPort(OrDefault(NEXT_PUBLIC_BASE_URL, <<>>))

\* tenants collection: the first label of every domain that is a non-empty
\* string other than baseDomain, unless that label is empty or 'www';
\* [...new Set(subdomains)] removes duplicates
TenantsSubdomains(docs) ==
    { FirstLabel(d) :
        d \in { x \in docs : /\ x # UNSET
                              /\ x # <<>>
                              /\ toLowerCase(x) # toLowerCase(baseDomain)
                              /\ FirstLabel(x) # <<>>
                              /\ toLowerCase(FirstLabel(x)) # www } }

\* users collection: every tenantId that is not empty, once
UsersTenantIds(docs) == { t \in docs : t # UNSET /\ t # <<>> }

\* mutant: a failed read of the store is answered as an empty directory
GET_EmptyOnFailure ==
    [status |-> 200,
     tenantIds |-> IF ~storeUp THEN {}
                   ELSE IF collection = "tenants" THEN TenantsSubdomains(store)
                   ELSE UsersTenantIds(store)]

\* the answer of GET: { tenantIds } with status 200, or, when the read of
\* the store throws, { error, details } with status 500
GET ==
    IF ~storeUp
    THEN [status |-> 500, tenantIds |-> MALFORMED]
    ELSE [status |-> 200,
          tenantIds |-> IF collection = "tenants" THEN TenantsSubdomains(store)
                        ELSE UsersTenantIds(store)]

\* the tenant ids the directory currently answers with
directory == GET.tenantIds

\* response.ok: the status is in the range 200-299
Ok(status) == status \in 200..299

\* field values of the documents of the route workload: a tenant, the
\* reserved label, the label of the base domain, and domains of the three
RouteDocs ==
    { acme, www, <<"c","r","m">>, <<"a","c","m","e",".","c","r","m",".","i","o">>, <<"W","W","W",".","c","r","m",".","i","o">>, <<"c","r","m",".","i","o">> }

\* the stores of the route workload hold up to MaxDocs documents
MaxDocs == 2
RouteStores == { docs \in SUBSET RouteDocs : Cardinality(docs) <= MaxDocs }

\* the document that makes tenant t known: its domain, or its tenantId
DocOf(t) ==
    IF collection = "tenants"
    THEN t \o <<".">> \o StripPort(PublicHost(NEXT_PUBLIC_BASE_URL))
    ELSE t

---------------------------------------------------------------------------
(* The AuthProvider: user administration and the license status.  Three    *)
(* revisions: src/src/middleware.ts 212-507, src/unnamed/part_002 and      *)
(* src/unnamed/part_003.                                                   *)

Providers == {"middleware.ts", "part_002", "part_003"}

ana == <<"a","n","a">>
bob == <<"b","o","b">>

\* document ids of the users collection
UserIds == {"u1", "u2"}

\* organisations users belong to
Organisations == {acme, beta}

\* a document of the collection, and the slot of a document that does not exist
UserDoc(t, n) == [exists |-> TRUE, tenantId |-> t, name |-> n]
NoDoc == [exists |-> FALSE, tenantId |-> UNSET, name |-> UNSET]

\* adminUser: null, or a user whose tenantId is missing, empty or set
NoAdmin == [present |-> FALSE, tenantId |-> UNSET]
AdminUsers ==
    {NoAdmin} \cup [present : {TRUE}, tenantId : {UNSET, <<>>} \cup Organisations]

\* data: Partial<User>; a field that is UNSET is not in the object
UpdateData == [tenantId : {UNSET, beta}, name : {bob}]

\* !( !adminUser || !adminUser.tenantId )
AdminAllowed(adminUser) ==
    /\ adminUser.present
    /\ adminUser.tenantId # UNSET
    /\ adminUser.tenantId # <<>>

\* mutant: only the existence of the target is tested
SameOrganisation_Existing(snap, adminUser) == snap.exists

\* !( !snap.exists() || snap.data().tenantId !== adminUser.tenantId )
SameOrganisation(snap, adminUser) ==
    /\ snap.exists
    /\ snap.tenantId = adminUser.tenantId

\* setDoc(ref, data, { merge: true }): the fields of data replace those of the
\* document, the others stay; a document that does not exist is created
setDocMerge(document, data) ==
    [exists |-> TRUE,
     tenantId |-> IF data.tenantId # UNSET THEN data.tenantId ELSE document.tenantId,
     name |-> IF data.name # UNSET THEN data.name ELSE document.name]

NoCall ==
    [pc |-> "idle", op |-> "none", userId |-> "u1",
     data |-> [tenantId |-> UNSET, name |-> UNSET], adminUser |-> NoAdmin, snap |-> NoDoc]

\* the sessions that administer users; the second is an administrator of
\* acme at work on u1
Sessions == {"s1", "s2"}
AdminsOf(c) == IF c = "s1" THEN AdminUsers ELSE {[present |-> TRUE, tenantId |-> acme]}
DataOf(c) == IF c = "s1" THEN UpdateData ELSE {[tenantId |-> UNSET, name |-> bob]}
TargetsOf(c) == IF c = "s1" THEN UserIds ELSE {"u1"}

\* a license field that is absent from the document
NoValue == [type |-> "undefined", n |-> 0]
Number(n) == [type |-> "number", n |-> n]

\* expiryDate: a Timestamp or a date string, as the day it denotes; or a
\* string that is no date
DateOn(day) == [type |-> "date", n |-> day]
InvalidDate == [type |-> "invalid", n |-> 0]

MaxDay == 3
MaxUsers == 2

\* license.status: missing, empty, the five documented values and another one
Statuses == {"<undefined>", "", "not_configured", "cancelled", "active", "trial",
             "expired", "suspended"}

\* StoredLicenseInfo | null
NoLicense == [present |-> FALSE, status |-> "<undefined>", expiryDate |-> NoValue,
              maxUsersAllowed |-> NoValue]
Licenses ==
    {NoLicense}
    \cup [present : {TRUE},
          status : Statuses,
          expiryDate : {NoValue, InvalidDate} \cup {DateOn(d) : d \in 1..MaxDay},
          maxUsersAllowed : {NoValue} \cup {Number(n) : n \in 0..MaxUsers}]

\* count: number | null
Counts == {NoValue} \cup {Number(n) : n \in 0..(MaxUsers + 1)}

\* expiryDate && (... toDate() / new Date(expiryDate)) < new Date(): a string
\* that is no date gives an Invalid Date, which is before nothing
Expired(expiryDate, day) == expiryDate.type = "date" /\ expiryDate.n < day

\* typeof maxUsers === 'number' && maxUsers > 0 && typeof count === 'number'
\* && count > maxUsers
OverLimit(maxUsers, count) ==
    /\ maxUsers.type = "number"
    /\ maxUsers.n > 0
    /\ count.type = "number"
    /\ count.n > maxUsers.n

\* what the last test returns for a status that is valid: part_002 reports
\* both as 'active', the other two revisions report the stored status
ValidStatus(pr, status) == IF pr = "part_002" THEN "active" ELSE status

\* mutant: a valid status is reported before the expiry and the limit are looked at
calculateEffectiveLicenseStatus_ValidFirst(pr, license, count, day) ==
    IF ~license.present \/ license.status \in {"<undefined>", "", "not_configured"}
    THEN "no_license"
    ELSE IF license.status = "cancelled" THEN "cancelled"
    ELSE IF license.status \in {"active", "trial"} THEN ValidStatus(pr, license.status)
    ELSE IF Expired(license.expiryDate, day) THEN "expired"
    ELSE IF OverLimit(license.maxUsersAllowed, count) THEN "limit_reached"
    ELSE "not_configured"

\* calculateEffectiveLicenseStatus(license, count) of revision pr, on day `day`
calculateEffectiveLicenseStatus(pr, license, count, day) ==
    IF ~license.present \/ license.status \in {"<undefined>", "", "not_configured"}
    THEN "no_license"
    ELSE IF license.status = "cancelled" THEN "cancelled"
    ELSE IF Expired(license.expiryDate, day) THEN "expired"
    ELSE IF OverLimit(license.maxUsersAllowed, count) THEN "limit_reached"
    ELSE IF license.status \in {"active", "trial"} THEN ValidStatus(pr, license.status)
    ELSE "not_configured"

\* fbUser / currentUser when nobody is signed in
NoUid == "null"
NoUser == [present |-> FALSE, id |-> NoUid, tenantId |-> UNSET]

\* a users document with the role the callback reads; role "" is no role
Profile(t, r) == [exists |-> TRUE, tenantId |-> t, name |-> ana, role |-> r]
NoProfile == [exists |-> FALSE, tenantId |-> UNSET, name |-> UNSET, role |-> ""]

\* a roles document that does not exist
NoRole == {"<no document>"}

gestionar_licencia == "gestionar-licencia"

\* the permissions a roles document may list
PermissionLists == {{}, {gestionar_licencia}, {"admin"}}

\* license documents of acme: none, a valid one, a trial, one that ran out
ValidLicense(status) ==
    [present |-> TRUE, status |-> status, expiryDate |-> DateOn(MaxDay),
     maxUsersAllowed |-> Number(MaxUsers)]
LapsedLicense ==
    [present |-> TRUE, status |-> "active", expiryDate |-> DateOn(1),
     maxUsersAllowed |-> NoValue]
SessionLicenses == {NoLicense, ValidLicense("active"), ValidLicense("trial"), LapsedLicense}

\* tenantId && (tenantId.includes('.') || tenantId.includes('/') ||
\* tenantId.length > 63) ? "" : tenantId   -- middleware.ts only
SanitizedTenantId(pr, tenantId) ==
    IF /\ pr = "middleware.ts"
       /\ tenantId # UNSET
       /\ \/ includes(tenantId, <<".">>)
          \/ includes(tenantId, <<"/">>)
          \/ Len(tenantId) > 63
    THEN <<>>
    ELSE tenantId

\* a string that is neither undefined nor empty
Truthy(str) == str # UNSET /\ str # <<>>

\* usersSnapshot.size of query(users, where("tenantId", "==", t))
UsersOf(docs, t) == Cardinality({u \in DOMAIN docs : docs[u].exists /\ docs[u].tenantId = t})

\* licenseDocSnap.exists() ? licenseDocSnap.data() : null
LicenseOf(docs, t) == IF t \in DOMAIN docs THEN docs[t] ELSE NoLicense

\* mutant: the permission must be listed, 'admin' opens nothing
hasPermission_Listed(permissions, perm) == perm \in permissions

\* hasPermission(p): 'admin' has every permission
hasPermission(permissions, perm) == "admin" \in permissions \/ perm \in permissions

settings_license == "/settings/license"
Pathnames == {settings_license, "/pipeline"}

\* what AppLayout returns: the skeleton, the LicenseAccessDeniedBlock, or the
\* application content around {children}
AppLayout(user, permissions, status, isLoading, isLoaded, pathname) ==
    LET userCanManageLicense == user.present /\ hasPermission(permissions, gestionar_licencia)
        isAdminOnLicensePage == userCanManageLicense /\ pathname = settings_license
        hasLicenseProblem == status # "active" /\ status # "trial"
    IN  IF isLoading \/ ~isLoaded THEN "skeleton"
        ELSE IF user.present /\ hasLicenseProblem /\ ~isAdminOnLicensePage THEN "denied"
        ELSE "content"

\* the slots of the callback: two invocations may overlap
Slots == {"k1", "k2"}
NoCallback == [pc |-> "idle", fbUser |-> NoUid, userData |-> NoProfile, tenantId |-> UNSET]

\* const tenantIdToAssign = admin?.tenantId || null (null is UNSET here)
tenantIdToAssign(admin) ==
    IF admin.present /\ Truthy(admin.tenantId) THEN admin.tenantId ELSE UNSET

\* the document signup writes to users/{uid}
SignupDoc(admin, name, targetRole) ==
    [exists |-> TRUE, tenantId |-> tenantIdToAssign(admin), name |-> name, role |-> targetRole]

\* a call of signup: its arguments, its position and `uc`, the credential of
\* the account it created (NoUid before createUserWithEmailAndPassword answers)
NoSignup == [pc |-> "idle", uid |-> NoUid, name |-> UNSET, targetRole |-> "",
             admin |-> NoAdmin, uc |-> NoUid]

\* The pages.  A document of leads, invoices or orders is modelled by its
\* tenantId (UNSET in a document written before tenants existed) and a name.
Routes == {"/pipeline", "/invoices"}
Collections == {"leads", "invoices", "orders"}
DocIds == {"d1", "d2"}
Record(t) == [exists |-> TRUE, tenantId |-> t, name |-> ana]
NoRecord == [exists |-> FALSE, tenantId |-> UNSET, name |-> UNSET]
ver_facturas == "ver-facturas"

\* at most this many getDocs of a collection are awaited at a time
MaxFetches == 2

\* querySnapshot.docs of getDocs(collection): every document
EveryDoc(docs) == {d \in DOMAIN docs : docs[d].exists}

\* querySnapshot.docs of query(collection, where("tenantId", "==", t)); the
\* orderBy of the queries orders the documents and is left out
WhereTenantId(docs, t) == {d \in DOMAIN docs : docs[d].exists /\ docs[d].tenantId = t}

\* the query of every page read without `where`
querySnapshot_EveryDoc(route, coll, docs, user) == EveryDoc(docs)

\* the documents the fetch of collection coll reads on the page at route:
\* fetchLeads of the pipeline page; fetchInvoices, fetchOrders and fetchLeads
\* of the invoices page
querySnapshot(route, coll, docs, user) ==
    IF route = "/pipeline" THEN WhereTenantId(docs, user.tenantId) ELSE EveryDoc(docs)

\* querySnapshot.docs.map(docSnap => ({ id: docSnap.id, ...docSnap.data() }))
Fetched(docs, ids) ==
    {[id |-> d, tenantId |-> docs[d].tenantId, name |-> docs[d].name] : d \in ids}

\* leadData of the dialog: id '' for a new lead; tenantId may be anything
LeadData == [id : {""} \cup DocIds, tenantId : {UNSET, acme, beta}, name : {bob}]

\* handleSaveLead: { ...leadData, id: leadId, ..., tenantId: currentUser.tenantId }
finalLeadData(leadData, leadId, user) ==
    [id |-> leadId, tenantId |-> user.tenantId, name |-> leadData.name]

\* if (!currentUser || !currentUser.tenantId) of fetchLeads and handleSaveLead
HasTenant(user) == user.present /\ Truthy(user.tenantId)

NoSave == [pc |-> "idle", leadData |-> [id |-> "", tenantId |-> UNSET, name |-> UNSET],
           leadId |-> ""]

---------------------------------------------------------------------------
(* The state machine                                                       *)

NoRequest == [host |-> UNSET, path |-> <<>>, tenantHdr |-> UNSET]

\* no session in the browser
SessionIdle ==
    /\ roles = [r \in {"r1"} |-> NoRole]
    /\ licenses = [t \in Organisations |-> NoLicense]
    /\ firebaseUser = NoUid
    /\ currentUser = NoUser
    /\ userPermissions = {}
    /\ loading = TRUE
    /\ isUserDataLoaded = FALSE
    /\ callbacks = [k \in Slots |-> NoCallback]
    /\ latest = "none"

sessionVars ==
    <<roles, licenses, firebaseUser, currentUser, userPermissions, loading,
      isUserDataLoaded, callbacks, latest>>

\* nobody is being signed up
SignupIdle ==
    /\ accounts = {}
    /\ signups = [c \in Sessions |-> NoSignup]

signupVars == <<accounts, signups>>

\* no page is mounted
PagesIdle ==
    /\ page = [route |-> "/pipeline", pc |-> "unmounted"]
    /\ db = [coll \in Collections |-> [d \in DocIds |-> NoRecord]]
    /\ leads = {}
    /\ orders = {}
    /\ invoices = {}
    /\ fetches = [coll \in Collections |-> 0]
    /\ saveLead = NoSave

pageVars == <<page, db, leads, orders, invoices, fetches, saveLead>>

ClientIdle == SessionIdle /\ SignupIdle /\ PagesIdle

clientVars == <<sessionVars, signupVars, pageVars>>

\* no AuthProvider is mounted: the middleware runs on the server
AuthIdle ==
    /\ provider = "middleware.ts"
    /\ users = [u \in UserIds |-> NoDoc]
    /\ calls = [c \in Sessions |-> NoCall]
    /\ licenseInfo = NoLicense
    /\ userCount = NoValue
    /\ today = 1
    /\ effectiveLicenseStatus = "pending"
    /\ ClientIdle

\* the module has just been loaded: no snapshot, no request
Boot ==
    /\ rev \in Revisions
    /\ NEXT_PUBLIC_BASE_URL \in BaseUrls
    /\ BASE_HOST = BaseHostOf(rev, NEXT_PUBLIC_BASE_URL)
    /\ clock = StartClock
    /\ cachedTenantIds = NULL
    /\ lastFetchTimestamp = 0
    /\ pc = [p \in Procs |-> "idle"]
    /\ req = [p \in Procs |-> NoRequest]
    /\ now = [p \in Procs |-> 0]
    /\ body = [p \in Procs |-> MALFORMED]
    /\ out = [p \in Procs |-> NoResponse]
    /\ lastDone = "none"
    /\ AuthIdle

\* the deployments with no preview URL, the users collection and a store
\* that can be read; tenants come and go
Init ==
    /\ Boot
    /\ workload \in Workloads
    /\ NEXT_PUBLIC_VERCEL_URL = UNSET
    /\ collection = "users"
    /\ store \in SUBSET TenantIds
    /\ storeUp = TRUE

authVars ==
    <<provider, users, calls, licenseInfo, userCount, today, effectiveLicenseStatus,
      clientVars>>

\* what no step of the middleware and of its directory changes
Config ==
    <<rev, NEXT_PUBLIC_BASE_URL, NEXT_PUBLIC_VERCEL_URL, collection, BASE_HOST, workload,
      authVars>>

\* slot p returns `response` to the runtime
Finish(p, response) ==
    /\ pc' = [pc EXCEPT ![p] = "done"]
    /\ out' = [out EXCEPT ![p] = response]
    /\ now' = [now EXCEPT ![p] = 0]
    /\ body' = [body EXCEPT ![p] = MALFORMED]
    /\ lastDone' = p

\* middleware(request) up to its first suspension: the bypass, the base
\* domain, a cache hit, or the start of a directory fetch
Receive(p, r) ==
    /\ pc[p] \in {"idle", "done"}
    /\ req' = [req EXCEPT ![p] = r]
    /\ UNCHANGED <<Config, clock, store, storeUp, cachedTenantIds, lastFetchTimestamp>>
    /\ IF Bypass(r.path)
       THEN Finish(p, BypassResponse(r))
       ELSE IF ~NeedsLookup(Hostname(r))
       THEN Finish(p, Respond(r, "none", {}))
       ELSE IF CacheFresh(clock)
       THEN Finish(p, Respond(r, "hit", cachedTenantIds))
       ELSE /\ pc' = [pc EXCEPT ![p] = "fetch"]
            /\ now' = [now EXCEPT ![p] = clock]
            /\ out' = [out EXCEPT ![p] = NoResponse]
            /\ lastDone' = "none"
            /\ UNCHANGED body

\* await fetch(...) throws, or answers with a status that is not OK
FetchFails(p) ==
    /\ pc[p] = "fetch"
    /\ KeepSnapshot
    /\ Finish(p, Respond(req[p], "failed", CachedOrEmpty))
    /\ UNCHANGED <<Config, clock, store, storeUp, req>>

\* await fetch(...) answers OK; the directory built the body at this moment
FetchResponds(p, b) ==
    /\ pc[p] = "fetch"
    /\ b \in {directory, MALFORMED}
    /\ pc' = [pc EXCEPT ![p] = "json"]
    /\ body' = [body EXCEPT ![p] = b]
    /\ lastDone' = "none"
    /\ UNCHANGED <<Config, clock, store, storeUp, cachedTenantIds, lastFetchTimestamp,
                   req, now, out>>

\* await response.json() and the rest of the lookup and of the middleware
JsonRead(p) ==
    /\ pc[p] = "json"
    /\ IF HasTenantIds(body[p])
       THEN /\ StoreSnapshot(body[p], now[p])
            /\ Finish(p, Respond(req[p], "refreshed", body[p]))
       ELSE /\ KeepSnapshot
            /\ Finish(p, Respond(req[p], "failed", CachedOrEmpty))
    /\ UNCHANGED <<Config, clock, store, storeUp, req>>

\* time passes
Tick ==
    /\ clock < StartClock + MaxTicks * TickMs
    /\ clock' = clock + TickMs
    /\ lastDone' = "none"
    /\ UNCHANGED <<Config, store, storeUp, cachedTenantIds, lastFetchTimestamp,
                   pc, req, now, body, out>>

\* an organisation is provisioned or deprovisioned (external process)
Provision(t) ==
    /\ t \notin directory
    /\ store' = store \cup {DocOf(t)}
    /\ lastDone' = "none"
    /\ UNCHANGED <<Config, clock, storeUp, cachedTenantIds, lastFetchTimestamp,
                   pc, req, now, body, out>>

Deprovision(t) ==
    /\ t \in directory
    /\ store' = store \ {DocOf(t)}
    /\ lastDone' = "none"
    /\ UNCHANGED <<Config, clock, storeUp, cachedTenantIds, lastFetchTimestamp,
                   pc, req, now, body, out>>

Next ==
    \/ \E p \in Procs : \E r \in Inbound(workload, NEXT_PUBLIC_BASE_URL, p) : Receive(p, r)
    \/ \E p \in Procs : FetchFails(p)
    \/ \E p \in Procs, b \in SUBSET TenantIds \cup {MALFORMED} : FetchResponds(p, b)
    \/ \E p \in Procs : JsonRead(p)
    \/ Tick
    \/ \E t \in TenantIds : Provision(t)
    \/ \E t \in TenantIds : Deprovision(t)

Spec == Init /\ [][Next]_vars

\* The middleware over the wide workload: every kind of host and path, with
\* and without a preview URL, over a directory that does not change.
InitHosts ==
    /\ Boot
    /\ workload = "hosts"
    /\ NEXT_PUBLIC_VERCEL_URL \in VercelUrls
    /\ collection = "users"
    /\ store \in SUBSET WideTenantIds
    /\ storeUp = TRUE

NextHosts ==
    \/ \E p \in Procs : \E r \in Inbound(workload, NEXT_PUBLIC_BASE_URL, p) : Receive(p, r)
    \/ \E p \in Procs : FetchFails(p)
    \/ \E p \in Procs, b \in {directory, MALFORMED} : FetchResponds(p, b)
    \/ \E p \in Procs : JsonRead(p)

SpecHosts == InitHosts /\ [][NextHosts]_vars

\* Overlapping requests against a directory that always answers with status
\* OK, with a list or with a body that has none.
InitBodies ==
    /\ Init
    /\ workload = "overlap"

NextBodies ==
    \/ \E p \in Procs : \E r \in Inbound(workload, NEXT_PUBLIC_BASE_URL, p) : Receive(p, r)
    \/ \E p \in Procs, b \in {directory, MALFORMED} : FetchResponds(p, b)
    \/ \E p \in Procs : JsonRead(p)
    \/ Tick
    \/ \E t \in TenantIds : Provision(t)
    \/ \E t \in TenantIds : Deprovision(t)

SpecBodies == InitBodies /\ [][NextBodies]_vars

\* The middleware in front of the route: the fetch is answered by GET over
\* either collection, and the store has outages.
InitRoute ==
    /\ Boot
    /\ workload = "route"
    /\ NEXT_PUBLIC_VERCEL_URL = UNSET
    /\ collection \in {"tenants", "users"}
    /\ store \in RouteStores
    /\ storeUp = TRUE

\* await fetch(...) is answered by the route
RouteAnswers(p) ==
    IF Ok(GET.status) THEN FetchResponds(p, GET.tenantIds) ELSE FetchFails(p)

\* the store becomes unreachable, and reachable again
StoreOutage ==
    /\ storeUp
    /\ storeUp' = FALSE
    /\ lastDone' = "none"
    /\ UNCHANGED <<Config, clock, store, cachedTenantIds, lastFetchTimestamp,
                   pc, req, now, body, out>>

StoreRecovers ==
    /\ ~storeUp
    /\ storeUp' = TRUE
    /\ lastDone' = "none"
    /\ UNCHANGED <<Config, clock, store, cachedTenantIds, lastFetchTimestamp,
                   pc, req, now, body, out>>

NextRoute ==
    \/ \E p \in Procs : \E r \in Inbound(workload, NEXT_PUBLIC_BASE_URL, p) : Receive(p, r)
    \/ \E p \in Procs : RouteAnswers(p)
    \/ \E p \in Procs : JsonRead(p)
    \/ Tick
    \/ StoreOutage
    \/ StoreRecovers

SpecRoute == InitRoute /\ [][NextRoute]_vars

\* The same with what the runtime guarantees: once fetch has answered, the
\* continuation of the lookup runs.  Nothing makes fetch itself answer: it is
\* called without a signal or a timeout.
InitLive ==
    /\ InitRoute
    /\ collection = "users"
    /\ store \in SUBSET TenantIds

SpecLive ==
    /\ InitLive
    /\ [][NextRoute]_vars
    /\ \A p \in Procs : WF_vars(JsonRead(p))

\* The user administration of the AuthProvider.  The middleware is at rest.
middlewareVars ==
    <<rev, NEXT_PUBLIC_BASE_URL, NEXT_PUBLIC_VERCEL_URL, collection, BASE_HOST, workload,
      clock, store, storeUp, cachedTenantIds, lastFetchTimestamp, pc, req, now, body,
      out, lastDone>>

MiddlewareAtRest ==
    /\ rev = 3
    /\ NEXT_PUBLIC_BASE_URL = UNSET
    /\ BASE_HOST = BaseHostOf(rev, NEXT_PUBLIC_BASE_URL)
    /\ NEXT_PUBLIC_VERCEL_URL = UNSET
    /\ collection = "users"
    /\ workload = "none"
    /\ clock = StartClock
    /\ store = {}
    /\ storeUp = TRUE
    /\ cachedTenantIds = NULL
    /\ lastFetchTimestamp = 0
    /\ pc = [p \in Procs |-> "idle"]
    /\ req = [p \in Procs |-> NoRequest]
    /\ now = [p \in Procs |-> 0]
    /\ body = [p \in Procs |-> MALFORMED]
    /\ out = [p \in Procs |-> NoResponse]
    /\ lastDone = "none"

licenseVars == <<licenseInfo, userCount, today, effectiveLicenseStatus>>

\* u1 is a user of acme, u2 a user of beta or no user at all
InitUsers ==
    /\ MiddlewareAtRest
    /\ provider \in Providers
    /\ users \in [UserIds -> {NoDoc, UserDoc(acme, ana), UserDoc(beta, ana)}]
    /\ users["u1"] = UserDoc(acme, ana)
    /\ calls = [c \in Sessions |-> NoCall]
    /\ licenseInfo = NoLicense
    /\ userCount = NoValue
    /\ today = 1
    /\ effectiveLicenseStatus = "pending"
    /\ ClientIdle

\* the call up to `await getDoc(...)`: the test of adminUser
Called(c, op, userId, data, adminUser) ==
    /\ calls[c].pc \in {"idle", "returned", "thrown"}
    /\ calls' = [calls EXCEPT ![c] =
                    [pc |-> IF AdminAllowed(adminUser) THEN "getDoc" ELSE "thrown",
                     op |-> op, userId |-> userId, data |-> data,
                     adminUser |-> adminUser, snap |-> NoDoc]]
    /\ UNCHANGED <<middlewareVars, provider, users, licenseVars, clientVars>>

\* updateUserInFirestore(userId, data, adminUser)
updateUserInFirestore(c, userId, data, adminUser) ==
    /\ data \in UpdateData
    /\ Called(c, "update", userId, data, adminUser)

\* deleteUserInFirestore(userId, adminUser); part_003 has no such function
deleteUserInFirestore(c, userId, adminUser) ==
    /\ provider # "part_003"
    /\ Called(c, "delete", userId, NoCall.data, adminUser)

\* getDoc answers with the document as it is now; the test of the snapshot
\* and the call of setDoc / deleteDoc
DocRead(c) ==
    /\ calls[c].pc = "getDoc"
    /\ LET snap == users[calls[c].userId]
       IN  calls' = [calls EXCEPT ![c].snap = snap,
                                  ![c].pc = IF SameOrganisation(snap, calls[c].adminUser)
                                            THEN "write" ELSE "thrown"]
    /\ UNCHANGED <<middlewareVars, provider, users, licenseVars, clientVars>>

\* the store applies the write, and the call returns
DocWritten(c) ==
    /\ calls[c].pc = "write"
    /\ users' = [users EXCEPT ![calls[c].userId] =
                    IF calls[c].op = "update" THEN setDocMerge(@, calls[c].data) ELSE NoDoc]
    /\ calls' = [calls EXCEPT ![c].pc = "returned"]
    /\ UNCHANGED <<middlewareVars, provider, licenseVars, clientVars>>

NextUsers ==
    \/ \E c \in Sessions : \E u \in TargetsOf(c), d \in DataOf(c), a \in AdminsOf(c) :
          updateUserInFirestore(c, u, d, a)
    \/ \E c \in Sessions : \E u \in TargetsOf(c), a \in AdminsOf(c) :
          deleteUserInFirestore(c, u, a)
    \/ \E c \in Sessions : DocRead(c)
    \/ \E c \in Sessions : DocWritten(c)

SpecUsers == InitUsers /\ [][NextUsers]_vars

\* The license status of the AuthProvider, over every license document, user
\* count and day.
InitLicense ==
    /\ MiddlewareAtRest
    /\ provider \in Providers
    /\ users = [u \in UserIds |-> NoDoc]
    /\ calls = [c \in Sessions |-> NoCall]
    /\ licenseInfo \in Licenses
    /\ userCount \in Counts
    /\ today = 1
    /\ effectiveLicenseStatus = "pending"
    /\ ClientIdle

\* setEffectiveLicenseStatus(calculateEffectiveLicenseStatus(license, count))
Calculate ==
    /\ effectiveLicenseStatus = "pending"
    /\ effectiveLicenseStatus' =
          calculateEffectiveLicenseStatus(provider, licenseInfo, userCount, today)
    /\ UNCHANGED <<middlewareVars, provider, users, calls, licenseInfo, userCount, today,
                   clientVars>>

\* a day passes; the status is to be calculated again
DayPasses ==
    /\ today < MaxDay
    /\ today' = today + 1
    /\ effectiveLicenseStatus' = "pending"
    /\ UNCHANGED <<middlewareVars, provider, users, calls, licenseInfo, userCount,
                   clientVars>>

NextLicense == Calculate \/ DayPasses

SpecLicense == InitLicense /\ [][NextLicense]_vars

\* The session of the AuthProvider: auth events and the callback they start.
\* u1 has a users document of several kinds or none, u2 is a user of beta
\* without a role.
InitSession ==
    /\ MiddlewareAtRest
    /\ provider \in Providers
    /\ users \in [UserIds -> {NoProfile, Profile(acme, "r1"), Profile(acme, ""),
                              Profile(<<>>, "r1"), Profile(a_b, "r1"), Profile(beta, "")}]
    /\ users["u1"] # Profile(beta, "")
    /\ users["u2"] = Profile(beta, "")
    /\ calls = [c \in Sessions |-> NoCall]
    /\ licenseInfo = NoLicense
    /\ userCount = NoValue
    /\ today = 2
    /\ effectiveLicenseStatus = "pending"
    /\ roles \in [{"r1"} -> {NoRole} \cup PermissionLists]
    /\ licenses \in [Organisations -> SessionLicenses]
    /\ licenses[beta] = ValidLicense("active")
    /\ firebaseUser = NoUid
    /\ currentUser = NoUser
    /\ userPermissions = {}
    /\ loading = TRUE
    /\ isUserDataLoaded = FALSE
    /\ callbacks = [k \in Slots |-> NoCallback]
    /\ latest = "none"
    /\ SignupIdle
    /\ PagesIdle

storeVars == <<provider, users, calls, today, roles, licenses, signupVars, pageVars>>

Running(k) == callbacks[k].pc \in {"user", "tenant", "role", "license"}

\* slot k goes on as cb, at position `at`
At(k, cb, at) == callbacks' = [callbacks EXCEPT ![k] = [cb EXCEPT !.pc = at]]

\* setIsUserDataLoaded(true); setLoading(false); the callback returns
Loaded(k, cb) ==
    /\ isUserDataLoaded' = TRUE
    /\ loading' = FALSE
    /\ At(k, cb, "finished")

\* the branch of a user without tenantId, to the end of the callback
WithoutTenant(k, cb) ==
    /\ effectiveLicenseStatus' = "active"
    /\ licenseInfo' = NoLicense
    /\ userCount' = NoValue
    /\ Loaded(k, cb)

\* the callback from `if (tenantId)` on (part_002 has no such part): up to
\* the await of the license and the users, or to the end of the callback
FromTenant(k, cb) ==
    IF provider = "part_002"
    THEN /\ Loaded(k, cb)
         /\ UNCHANGED <<licenseInfo, userCount, effectiveLicenseStatus>>
    ELSE IF Truthy(cb.tenantId)
    THEN /\ At(k, cb, "license")
         /\ UNCHANGED <<licenseInfo, userCount, effectiveLicenseStatus, loading,
                        isUserDataLoaded>>
    ELSE WithoutTenant(k, cb)

\* the callback from setCurrentUser on: up to the await of the role, or as
\* FromTenant
FromCurrentUser(k, cb) ==
    /\ currentUser' = [present |-> TRUE, id |-> cb.fbUser, tenantId |-> cb.tenantId]
    /\ IF cb.userData.role # ""
       THEN /\ At(k, cb, "role")
            /\ UNCHANGED <<licenseInfo, userCount, effectiveLicenseStatus, loading,
                           isUserDataLoaded>>
       ELSE FromTenant(k, cb)

\* onAuthStateChanged fires with fbUser: the callback up to its first await
AuthStateChanged(k, fbUser) ==
    /\ ~Running(k)
    /\ \A j \in Slots : Running(j) \/ j = k \/ k = "k1"
    /\ firebaseUser' = fbUser
    /\ currentUser' = NoUser
    /\ userPermissions' = {}
    /\ licenseInfo' = NoLicense
    /\ effectiveLicenseStatus' = "pending"
    /\ latest' = k
    /\ IF fbUser = NoUid
       THEN /\ isUserDataLoaded' = TRUE
            /\ loading' = FALSE
            /\ At(k, NoCallback, "finished")
       ELSE /\ isUserDataLoaded' = FALSE
            /\ loading' = TRUE
            /\ At(k, [NoCallback EXCEPT !.fbUser = fbUser], "user")
    /\ UNCHANGED <<middlewareVars, storeVars, userCount>>

\* await getDoc(userDocRef) answers
UserDocRead(k) ==
    /\ callbacks[k].pc = "user"
    /\ LET snap == users[callbacks[k].fbUser]
           cb == [callbacks[k] EXCEPT !.userData = snap,
                                      !.tenantId = SanitizedTenantId(provider, snap.tenantId)]
       IN  IF ~snap.exists
           THEN /\ Loaded(k, cb)
                /\ UNCHANGED <<currentUser, licenseInfo, userCount, effectiveLicenseStatus>>
           ELSE IF provider = "part_002" /\ Truthy(snap.tenantId)
           THEN /\ At(k, cb, "tenant")
                /\ UNCHANGED <<currentUser, licenseInfo, userCount, effectiveLicenseStatus,
                               loading, isUserDataLoaded>>
           ELSE FromCurrentUser(k, cb)
    /\ UNCHANGED <<middlewareVars, storeVars, firebaseUser, userPermissions, latest>>

\* part_002: await getDoc(tenantDocRef) answers; the subdomain it gives is
\* for the redirection after login
TenantDocRead(k) ==
    /\ callbacks[k].pc = "tenant"
    /\ FromCurrentUser(k, callbacks[k])
    /\ UNCHANGED <<middlewareVars, storeVars, firebaseUser, userPermissions, latest>>

\* await getDoc(roleDocRef) answers
RoleDocRead(k) ==
    /\ callbacks[k].pc = "role"
    /\ LET permissions == roles[callbacks[k].userData.role]
       IN  userPermissions' = IF permissions = NoRole THEN userPermissions ELSE permissions
    /\ FromTenant(k, callbacks[k])
    /\ UNCHANGED <<middlewareVars, storeVars, firebaseUser, currentUser, latest>>

\* await Promise.all([getDoc(licenseDocRef), getDocs(usersQuery)]) answers
LicenseRead(k) ==
    /\ callbacks[k].pc = "license"
    /\ LET currentLicense == LicenseOf(licenses, callbacks[k].tenantId)
           currentCount == Number(UsersOf(users, callbacks[k].tenantId))
       IN  /\ licenseInfo' = currentLicense
           /\ userCount' = currentCount
           /\ effectiveLicenseStatus' =
                 calculateEffectiveLicenseStatus(provider, currentLicense, currentCount, today)
    /\ Loaded(k, callbacks[k])
    /\ UNCHANGED <<middlewareVars, storeVars, firebaseUser, currentUser, userPermissions,
                   latest>>

\* an awaited read rejects: the license read is inside try/catch, the reads
\* of the user, tenant and role documents are not, and the callback ends there
ReadFails(k) ==
    /\ Running(k)
    /\ IF callbacks[k].pc = "license"
       THEN /\ effectiveLicenseStatus' = "not_configured"
            /\ Loaded(k, callbacks[k])
       ELSE /\ At(k, callbacks[k], "rejected")
            /\ UNCHANGED <<effectiveLicenseStatus, loading, isUserDataLoaded>>
    /\ UNCHANGED <<middlewareVars, storeVars, firebaseUser, currentUser, userPermissions,
                   licenseInfo, userCount, latest>>

NextSession ==
    \/ \E k \in Slots, fbUser \in UserIds \cup {NoUid} : AuthStateChanged(k, fbUser)
    \/ \E k \in Slots : UserDocRead(k)
    \/ \E k \in Slots : TenantDocRead(k)
    \/ \E k \in Slots : RoleDocRead(k)
    \/ \E k \in Slots : LicenseRead(k)
    \/ \E k \in Slots : ReadFails(k)

SpecSession == InitSession /\ [][NextSession]_vars

---------------------------------------------------------------------------
\* signup of the AuthProvider (the same code in the three revisions): an
\* administrator creates users.  u2 may have an account already.
InitSignup ==
    /\ MiddlewareAtRest
    /\ provider \in Providers
    /\ accounts \in {{}, {"u2"}}
    /\ users = [u \in UserIds |-> IF u \in accounts THEN Profile(beta, "") ELSE NoProfile]
    /\ calls = [c \in Sessions |-> NoCall]
    /\ licenseInfo = NoLicense
    /\ userCount = NoValue
    /\ today = 1
    /\ effectiveLicenseStatus = "pending"
    /\ SessionIdle
    /\ PagesIdle
    /\ signups = [c \in Sessions |-> NoSignup]

\* what signup leaves alone
signupFrame ==
    <<middlewareVars, provider, calls, licenseVars, roles, licenses, firebaseUser,
      currentUser, userPermissions, isUserDataLoaded, callbacks, latest, pageVars>>

\* the catch block: toast, setLoading(false), throw e
signupThrows(c) ==
    /\ loading' = FALSE
    /\ signups' = [signups EXCEPT ![c].pc = "thrown"]

\* signup(email, pass, name, targetRole, admin) is called: setLoading(true),
\* up to the await of createUserWithEmailAndPassword; uid is the id the
\* account of that email has or gets
signup(c, uid, name, targetRole, admin) ==
    /\ signups[c].pc = "idle"
    /\ loading' = TRUE
    /\ signups' = [signups EXCEPT ![c] = [pc |-> "create", uid |-> uid, name |-> name,
                                          targetRole |-> targetRole, admin |-> admin,
                                          uc |-> NoUid]]
    /\ UNCHANGED <<signupFrame, users, accounts>>

\* await createUserWithEmailAndPassword answers: auth/email-already-in-use
\* when the account exists, the new account otherwise
createUserAnswers(c) ==
    /\ signups[c].pc = "create"
    /\ IF signups[c].uid \in accounts
       THEN /\ signupThrows(c)
            /\ UNCHANGED accounts
       ELSE /\ accounts' = accounts \cup {signups[c].uid}
            /\ signups' = [signups EXCEPT ![c].pc = "profile", ![c].uc = signups[c].uid]
            /\ UNCHANGED loading
    /\ UNCHANGED <<signupFrame, users>>

\* await updateProfile answers, then the test of tenantIdToAssign
updateProfileAnswers(c) ==
    /\ signups[c].pc = "profile"
    /\ IF ~Truthy(tenantIdToAssign(signups[c].admin))
       THEN signupThrows(c)
       ELSE /\ signups' = [signups EXCEPT ![c].pc = "write"]
            /\ UNCHANGED loading
    /\ UNCHANGED <<signupFrame, users, accounts>>

\* await setDoc(doc(db, "users", uc.user.uid), ...) answers; signup returns
setDocAnswers(c) ==
    /\ signups[c].pc = "write"
    /\ users' = [users EXCEPT ![signups[c].uc] =
                     SignupDoc(signups[c].admin, signups[c].name, signups[c].targetRole)]
    /\ loading' = FALSE
    /\ signups' = [signups EXCEPT ![c].pc = "returned"]
    /\ UNCHANGED <<signupFrame, accounts>>

\* an awaited call rejects (weak password, network, permission denied)
signupRejects(c) ==
    /\ signups[c].pc \in {"create", "profile", "write"}
    /\ signupThrows(c)
    /\ UNCHANGED <<signupFrame, users, accounts>>

NextSignup ==
    \/ \E c \in Sessions, uid \in UserIds, name \in {ana, bob}, admin \in AdminUsers :
          signup(c, uid, name, "r1", admin)
    \/ \E c \in Sessions : createUserAnswers(c)
    \/ \E c \in Sessions : updateProfileAnswers(c)
    \/ \E c \in Sessions : setDocAnswers(c)
    \/ \E c \in Sessions : signupRejects(c)

SpecSignup == InitSignup /\ [][NextSignup]_vars

---------------------------------------------------------------------------
\* The pipeline page and the invoices page, mounted under an AuthProvider
\* that has loaded its user: the user and the permissions stay as they are
\* while the page is mounted.  Both tenants have invoices and orders.
InitPages ==
    /\ MiddlewareAtRest
    /\ provider \in Providers
    /\ users = [u \in UserIds |-> NoDoc]
    /\ calls = [c \in Sessions |-> NoCall]
    /\ licenseInfo = NoLicense
    /\ userCount = NoValue
    /\ today = 1
    /\ effectiveLicenseStatus = "active"
    /\ roles = [r \in {"r1"} |-> NoRole]
    /\ licenses = [t \in Organisations |-> NoLicense]
    /\ currentUser \in {NoUser} \cup
                       [present : {TRUE}, id : {"u1"}, tenantId : {UNSET, <<>>, acme}]
    /\ firebaseUser = currentUser.id
    /\ userPermissions \in {{}, {ver_facturas}, {"admin"}}
    /\ (~currentUser.present => userPermissions = {})
    /\ loading \in BOOLEAN
    /\ isUserDataLoaded = ~loading
    /\ callbacks = [k \in Slots |-> NoCallback]
    /\ latest = "none"
    /\ SignupIdle
    /\ page \in [route : Routes, pc : {"mounted"}]
    /\ db \in [Collections -> [DocIds -> {NoRecord, Record(UNSET), Record(acme), Record(beta)}]]
    /\ db["invoices"] = [d \in DocIds |-> IF d = "d1" THEN Record(acme) ELSE Record(beta)]
    /\ db["orders"] = db["invoices"]
    /\ leads = {}
    /\ orders = {}
    /\ invoices = {}
    /\ fetches = [coll \in Collections |-> 0]
    /\ saveLead = NoSave

\* what the pages leave alone
pagesFrame ==
    <<middlewareVars, provider, users, calls, licenseVars, sessionVars, signupVars>>

\* a fetch of the page is called: up to its await of getDocs
fetchCalled(colls) ==
    fetches' = [coll \in Collections |->
                   IF coll \in colls THEN fetches[coll] + 1 ELSE fetches[coll]]

\* fetchLeads of the pipeline page is called
fetchLeads ==
    IF HasTenant(currentUser) THEN fetchCalled({"leads"}) ELSE UNCHANGED fetches

\* the effect of the page runs.  Pipeline: fetchLeads().  Invoices: nothing
\* while the AuthProvider is loading; to /access-denied without a user or
\* without 'ver-facturas'; otherwise fetchOrders, fetchLeads, fetchInvoices
\* (fetchUsers fills the list of users, which is not modelled)
useEffect ==
    /\ page.pc = "mounted"
    /\ IF page.route = "/pipeline"
       THEN /\ fetchLeads
            /\ page' = [page EXCEPT !.pc = "ran"]
       ELSE /\ ~loading
            /\ IF ~currentUser.present \/ ~hasPermission(userPermissions, ver_facturas)
               THEN /\ page' = [page EXCEPT !.pc = "denied"]
                    /\ UNCHANGED fetches
               ELSE /\ page' = [page EXCEPT !.pc = "ran"]
                    /\ fetchCalled(Collections)
    /\ UNCHANGED <<pagesFrame, db, leads, orders, invoices, saveLead>>

\* await getDocs(...) of the fetch of coll answers: setLeads, setOrders or
\* setInvoices with what it read
getDocsAnswers(coll) ==
    /\ fetches[coll] > 0
    /\ fetches' = [fetches EXCEPT ![coll] = @ - 1]
    /\ LET fetched == Fetched(db[coll], querySnapshot(page.route, coll, db[coll], currentUser))
       IN  /\ leads' = IF coll = "leads" THEN fetched ELSE leads
           /\ orders' = IF coll = "orders" THEN fetched ELSE orders
           /\ invoices' = IF coll = "invoices" THEN fetched ELSE invoices
    /\ UNCHANGED <<pagesFrame, page, db, saveLead>>

\* await getDocs(...) rejects: the catch block, the page state stays
getDocsFails(coll) ==
    /\ fetches[coll] > 0
    /\ fetches' = [fetches EXCEPT ![coll] = @ - 1]
    /\ UNCHANGED <<pagesFrame, page, db, leads, orders, invoices, saveLead>>

\* handleSaveLead(leadData) is called: up to its await of setDoc.  A new
\* lead gets the id of a document that does not exist yet.
handleSaveLead(leadData, newId) ==
    /\ page.route = "/pipeline"
    /\ saveLead.pc # "write"
    /\ leadData.id = "" => ~db["leads"][newId].exists
    /\ saveLead' = IF ~HasTenant(currentUser)
                   THEN [pc |-> "returned", leadData |-> leadData, leadId |-> ""]
                   ELSE [pc |-> "write", leadData |-> leadData,
                         leadId |-> IF leadData.id # "" THEN leadData.id ELSE newId]
    /\ UNCHANGED <<pagesFrame, page, db, leads, orders, invoices, fetches>>

\* await setDoc(leadDocRef, dataToSaveForFirestore, { merge: true }) answers;
\* then fetchLeads()
leadDocWritten ==
    /\ saveLead.pc = "write"
    /\ fetches["leads"] < MaxFetches
    /\ LET leadId == saveLead.leadId
       IN  db' = [db EXCEPT !["leads"][leadId] =
                     setDocMerge(@, finalLeadData(saveLead.leadData, leadId, currentUser))]
    /\ fetchLeads
    /\ saveLead' = [saveLead EXCEPT !.pc = "written"]
    /\ UNCHANGED <<pagesFrame, page, leads, orders, invoices>>

\* await setDoc rejects: the catch block
leadWriteFails ==
    /\ saveLead.pc = "write"
    /\ saveLead' = [saveLead EXCEPT !.pc = "failed"]
    /\ UNCHANGED <<pagesFrame, page, db, leads, orders, invoices, fetches>>

NextPages ==
    \/ useEffect
    \/ \E coll \in Collections : getDocsAnswers(coll)
    \/ \E coll \in Collections : getDocsFails(coll)
    \/ \E leadData \in LeadData, newId \in DocIds : handleSaveLead(leadData, newId)
    \/ leadDocWritten
    \/ leadWriteFails

SpecPages == InitPages /\ [][NextPages]_vars

---------------------------------------------------------------------------
(* Observations used by the properties                                     *)

\* slot p has just returned its response: nothing has happened since
JustDone(p) == lastDone = p /\ pc[p] = "done"

\* the candidate subdomain of the request slot p holds
CandidateOfSlot(p) == Candidate(Hostname(req[p]))

\* this step is middleware(request) entered by slot p with a request that
\* consults the directory cache
ReceivesLookup(p) ==
    /\ pc[p] \in {"idle", "done"}
    /\ pc'[p] = "fetch" \/ lastDone' = p
    /\ ~Bypass(req'[p].path)
    /\ NeedsLookup(Hostname(req'[p]))

\* this step ends a refresh attempt of slot p in failure
RefreshFails(p) ==
    /\ pc[p] \in {"fetch", "json"}
    /\ lastDone' = p
    /\ out'[p].lookup = "failed"

\* this step ends a refresh attempt of slot p in success
RefreshSucceeds(p) ==
    /\ pc[p] = "json"
    /\ lastDone' = p
    /\ out'[p].lookup = "refreshed"

Snapshot == <<cachedTenantIds, lastFetchTimestamp>>

\* the Host header of the request a client sends when it follows Location:
\* what stands between the protocol and the path
HostOfLocation(location) == FirstSegment(StripProtocol(location))

\* this step is middleware(request) entered by slot p with the follow-up of
\* the redirect slot p has answered before: host of the Location, same path
FollowsRedirect(p) ==
    /\ pc[p] = "done"
    /\ out[p].kind = "redirect"
    /\ pc'[p] = "fetch" \/ lastDone' = p
    /\ req'[p].host = HostOfLocation(out[p].location)
    /\ req'[p].path = req[p].path

\* this step is the end of a call of session c: it returns, or it throws
Returns(c) == calls[c].pc # "returned" /\ calls'[c].pc = "returned"
Throws(c) == calls[c].pc # "thrown" /\ calls'[c].pc = "thrown"

\* the call of session c is one by an administrator with a tenantId, for a
\* document that getDoc found in the administrator's organisation
Permitted(call) ==
    /\ call.adminUser.present
    /\ call.adminUser.tenantId \in Organisations
    /\ call.snap.exists
    /\ call.snap.tenantId = call.adminUser.tenantId

\* what the layout shows at pathname in the current state of the provider
Rendered(pathname) ==
    AppLayout(currentUser, userPermissions, effectiveLicenseStatus, loading,
              isUserDataLoaded, pathname)

\* loaded, signed in, and the license is not a valid one
LicenseProblem ==
    /\ ~loading
    /\ isUserDataLoaded
    /\ currentUser.present
    /\ effectiveLicenseStatus \notin {"active", "trial"}

\* every callback that was started has come to its end
Quiet == latest # "none" /\ \A k \in Slots : ~Running(k)

\* every callback that was started has run to its last statement
AllFinished == latest # "none" /\ \A k \in Slots : callbacks[k].pc \in {"idle", "finished"}

SameOutcome(a, b) ==
    /\ a.kind = b.kind
    /\ a.tenantHdr = b.tenantHdr
    /\ a.location = b.location

---------------------------------------------------------------------------
(* Properties                                                              *)

\* C1: every request revisions 2 and 3 let through to the downstream handlers
\* (tenant success, base domain and bypass alike) carries no x-tenant-id, or
\* one that the lookup of that request returned as valid.
C1_ForwardedTenantIsValidated ==
    \A p \in Procs :
        (JustDone(p) /\ rev \in {2, 3} /\ out[p].kind = "next")
        => \/ out[p].tenantHdr = UNSET
           \/ out[p].lookup # "none" /\ out[p].tenantHdr \in out[p].validTenants

\* C2: a request that is not bypassed and whose Host is t.BASE_HOST, t in the
\* valid set the cache holds, is forwarded with x-tenant-id t (revisions 2, 3).
C2_ValidTenantHostForwarded ==
    \A p \in Procs : \A t \in CachedOrEmpty :
        ( /\ JustDone(p)
          /\ rev \in {2, 3}
          /\ ~Bypass(req[p].path)
          /\ req[p].host = t \o <<".">> \o BASE_HOST )
        => out[p].kind = "next" /\ out[p].tenantHdr = t

\* C3: in revision 3 a request that is not bypassed and whose candidate is not
\* in the valid set the lookup returned is answered with a redirect to
\* https://BASE_HOST<path> and is not forwarded with an x-tenant-id.
C3_UnknownCandidateRedirected ==
    \A p \in Procs :
        ( /\ JustDone(p)
          /\ rev = 3
          /\ ~Bypass(req[p].path)
          /\ CandidateOfSlot(p) # UNSET
          /\ CandidateOfSlot(p) \notin out[p].validTenants )
        => /\ out[p].kind = "redirect"
           /\ out[p].location = <<"h","t","t","p","s",":","/","/">> \o BASE_HOST \o req[p].path
           /\ out[p].tenantHdr = UNSET

C3_Witness ==
    \E p \in Procs :
        /\ JustDone(p)
        /\ rev = 3
        /\ req[p].host = TenantHost(beta, NEXT_PUBLIC_BASE_URL)
        /\ out[p].kind = "redirect"
        /\ out[p].validTenants = {acme}
        /\ out[p].lookup = "hit"

\* C4: a request that is not bypassed and whose Host names the base host (it
\* equals BASE_HOST up to the port and the letter case) is forwarded with
\* x-tenant-id removed, for every configured BASE_HOST (revisions 2, 3).
C4_BaseHostForwardedUntagged ==
    \A p \in Procs :
        ( /\ JustDone(p)
          /\ rev \in {2, 3}
          /\ ~Bypass(req[p].path)
          /\ req[p].host # UNSET
          /\ toLowerCase(StripPort(req[p].host)) = toLowerCase(StripPort(BASE_HOST)) )
        => out[p].kind = "next" /\ out[p].tenantHdr = UNSET

\* C5: when the directory cannot be fetched and no snapshot was ever stored,
\* the lookup returns the empty set; no x-tenant-id is forwarded, and revision
\* 3 redirects the request.
C5_FailClosedWithoutSnapshot ==
    \A p \in Procs :
        (JustDone(p) /\ out[p].lookup = "failed" /\ cachedTenantIds = NULL)
        => /\ out[p].validTenants = {}
           /\ out[p].tenantHdr = UNSET
           /\ rev = 3 => out[p].kind = "redirect"

C5_Witness ==
    \E p \in Procs :
        /\ JustDone(p)
        /\ rev = 3
        /\ out[p].lookup = "failed"
        /\ cachedTenantIds = NULL
        /\ acme \in directory
        /\ CandidateOfSlot(p) = acme
        /\ out[p].kind = "redirect"

\* C6: a lookup made while a snapshot is present and younger than
\* CACHE_DURATION_MS returns that snapshot, issues no fetch and leaves
\* cachedTenantIds and lastFetchTimestamp as they are.
C6_FreshSnapshotIsAHit ==
    [][ \A p \in Procs :
          ( /\ ReceivesLookup(p)
            /\ cachedTenantIds # NULL
            /\ clock - lastFetchTimestamp < CACHE_DURATION_MS )
          => /\ pc'[p] = "done"
             /\ out'[p].lookup = "hit"
             /\ out'[p].validTenants = cachedTenantIds
             /\ Snapshot' = Snapshot ]_vars

C6_Witness ==
    \E p \in Procs :
        /\ JustDone(p)
        /\ out[p].lookup = "hit"
        /\ clock - lastFetchTimestamp = TickMs
        /\ directory # cachedTenantIds

\* C7: when a refresh attempt fails, the lookup returns the snapshot held at
\* that moment, or the empty set when there is none; so a request whose
\* candidate is in the stale snapshot is still forwarded with that tenant.
C7_StaleServe ==
    [][ \A p \in Procs :
          RefreshFails(p)
          => /\ out'[p].validTenants = (IF cachedTenantIds = NULL THEN {} ELSE cachedTenantIds)
             /\ CandidateOfSlot(p) \in out'[p].validTenants
                => out'[p].kind = "next" /\ out'[p].tenantHdr = CandidateOfSlot(p) ]_vars

C7_Witness ==
    \E p \in Procs :
        /\ JustDone(p)
        /\ out[p].lookup = "failed"
        /\ cachedTenantIds = {acme}
        /\ clock - lastFetchTimestamp >= CACHE_DURATION_MS
        /\ directory = {}
        /\ out[p].tenantHdr = acme

\* C8: a failed refresh attempt leaves cachedTenantIds and lastFetchTimestamp
\* as they were; a present snapshot is not replaced by an empty one.
C8_FailureKeepsSnapshot ==
    [][ \A p \in Procs : RefreshFails(p) => Snapshot' = Snapshot ]_vars

C8_Witness ==
    \E p \in Procs :
        /\ JustDone(p)
        /\ out[p].lookup = "failed"
        /\ cachedTenantIds # NULL
        /\ lastFetchTimestamp > 0
        /\ out[p].kind = "redirect"

\* C9: the pair (cachedTenantIds, lastFetchTimestamp) is written only by a
\* refresh that succeeds, and then as a whole: the list and the timestamp of
\* that one refresh, however lookups and refreshes interleave.
C9_SnapshotIsOneFetch ==
    [][ /\ \A p \in Procs : RefreshSucceeds(p) => Snapshot' = <<body[p], now[p]>>
        /\ Snapshot' # Snapshot => \E p \in Procs : RefreshSucceeds(p) ]_vars

C9_Witness ==
    \E p, q \in Procs :
        /\ p # q
        /\ JustDone(p)
        /\ out[p].lookup = "refreshed"
        /\ pc[q] = "json"
        /\ body[q] # cachedTenantIds
        /\ now[q] # lastFetchTimestamp

\* this step is slot q entering middleware(request) with the request slot p
\* has just been answered
ResolvesAgain(p, q) ==
    /\ rev = 3
    /\ JustDone(p)
    /\ ~Bypass(req[p].path)
    /\ pc[q] \in {"idle", "done"}
    /\ pc'[q] = "fetch" \/ lastDone' = q
    /\ req'[q] = req[p]

\* C10 as stated: in revision 3, resolving the same host twice in immediate
\* succession gives the same outcome, and the second resolution issues no
\* directory fetch.
C10_Idempotent ==
    [][ \A p, q \in Procs :
          ResolvesAgain(p, q)
          => /\ pc'[q] = "done"
             /\ out'[q].lookup \in {"hit", "none"}
             /\ SameOutcome(out'[q], out[p]) ]_vars

\* C10 amended: the same, when the first resolution leaves a snapshot that is
\* present and younger than CACHE_DURATION_MS.
C10_IdempotentWhileFresh ==
    [][ \A p, q \in Procs :
          ( /\ ResolvesAgain(p, q)
            /\ cachedTenantIds # NULL
            /\ clock - lastFetchTimestamp < CACHE_DURATION_MS )
          => /\ pc'[q] = "done"
             /\ out'[q].lookup \in {"hit", "none"}
             /\ SameOutcome(out'[q], out[p]) ]_vars

C10_Witness ==
    \E p, q \in Procs :
        /\ rev = 3
        /\ p # q
        /\ JustDone(q)
        /\ pc[p] = "done"
        /\ req[p] = req[q]
        /\ out[p].lookup = "refreshed"
        /\ out[q].lookup = "hit"
        /\ out[q].tenantHdr = acme
        /\ lastFetchTimestamp = clock

\* this step is slot p entering middleware(request)
Receives(p) ==
    /\ pc[p] \in {"idle", "done"}
    /\ pc'[p] = "fetch" \/ lastDone' = p

\* C11: a request whose path starts with /api/, /_next/ or /static/, or has a
\* '.' in it, is answered at once with NextResponse.next() and the headers
\* the client sent, whatever its host; no directory fetch is started and
\* cachedTenantIds and lastFetchTimestamp stay as they are.
C11_BypassForwardsUnmodified ==
    [][ \A p \in Procs :
          ( /\ Receives(p)
            /\ \/ startsWith(req'[p].path, <<"/","a","p","i","/">>)
               \/ startsWith(req'[p].path, <<"/","_","n","e","x","t","/">>)
               \/ startsWith(req'[p].path, <<"/","s","t","a","t","i","c","/">>)
               \/ includes(req'[p].path, <<".">>) )
          => /\ pc'[p] = "done"
             /\ out'[p].kind = "next"
             /\ out'[p].tenantHdr = req'[p].tenantHdr
             /\ out'[p].lookup = "none"
             /\ Snapshot' = Snapshot ]_vars

C11_Witness ==
    \E p \in Procs :
        /\ JustDone(p)
        /\ req[p].path = <<"/","s","t","a","t","i","c","/","l">>
        /\ req[p].host = TenantHost(beta, NEXT_PUBLIC_BASE_URL)
        /\ req[p].tenantHdr = <<"e","v","i","l">>
        /\ out[p].kind = "next"
        /\ out[p].tenantHdr = <<"e","v","i","l">>
        /\ cachedTenantIds = {acme}

\* the structural check of a candidate: empty, with a '.' or a '/' in it, or
\* longer than 63 characters
Malformed(c) ==
    \/ c = <<>>
    \/ includes(c, <<".">>)
    \/ includes(c, <<"/">>)
    \/ Len(c) > 63

\* C12: in revision 3 a request whose candidate is malformed is redirected
\* to the base host whatever the directory returns, and no revision forwards
\* a request it resolved with a malformed x-tenant-id.
C12_MalformedCandidateRejected ==
    \A p \in Procs :
        (JustDone(p) /\ ~Bypass(req[p].path))
        => /\ (rev = 3 /\ CandidateOfSlot(p) # UNSET /\ Malformed(CandidateOfSlot(p)))
              => out[p].kind = "redirect" /\ out[p].tenantHdr = UNSET
           /\ (out[p].kind = "next" /\ out[p].tenantHdr # UNSET)
              => ~Malformed(out[p].tenantHdr)

\* C13: a request that is not bypassed and whose Host is t.BASE_HOST up to
\* letter case, t in the valid set the lookup returned, resolves to tenant t:
\* it is forwarded with x-tenant-id t (revisions 2, 3).
C13_CaseInsensitiveValidation ==
    \A p \in Procs : \A t \in out[p].validTenants :
        ( /\ JustDone(p)
          /\ rev \in {2, 3}
          /\ ~Bypass(req[p].path)
          /\ req[p].host # UNSET
          /\ toLowerCase(StripPort(req[p].host)) = toLowerCase(t \o <<".">> \o BASE_HOST) )
        => out[p].kind = "next" /\ toLowerCase(out[p].tenantHdr) = toLowerCase(t)

\* C14: eventual consistency bounded by the cache duration, in revision 3.  (1) A lookup
\* that finds no snapshot, or one of age CACHE_DURATION_MS or more, starts a
\* refresh.  (2) Once the snapshot has been refreshed without a tenant that
\* is gone from the directory, every request for that tenant's host answered
\* while it stays gone gets no x-tenant-id, and is redirected by revision 3.
\* (3) A tenant gone from the directory is served from the cache only while
\* the snapshot is younger than CACHE_DURATION_MS.
C14_RemovedTenantExpires ==
    [][ \A p \in Procs : \A t \in TenantIds :
          rev = 3 =>
          /\ ( /\ ReceivesLookup(p)
               /\ cachedTenantIds = NULL \/ clock - lastFetchTimestamp >= CACHE_DURATION_MS )
             => pc'[p] = "fetch"
          /\ ( /\ cachedTenantIds # NULL
               /\ t \notin cachedTenantIds
               /\ t \notin directory
               /\ t \notin directory'
               /\ lastDone' = p
               /\ ~Bypass(req'[p].path)
               /\ Candidate(Hostname(req'[p])) = t )
             => /\ out'[p].tenantHdr = UNSET
                /\ rev = 3 => out'[p].kind = "redirect"
          /\ ( /\ lastDone' = p
               /\ out'[p].lookup = "hit"
               /\ out'[p].tenantHdr = t
               /\ t \notin directory' )
             => clock' - lastFetchTimestamp' < CACHE_DURATION_MS ]_vars

\* C15 as stated: in revision 3 a request that is not bypassed and has no
\* Host header is answered like one whose candidate is unknown: with a
\* redirect to https://BASE_HOST<path> and no x-tenant-id.
C15_MissingHostRedirected ==
    \A p \in Procs :
        ( /\ JustDone(p)
          /\ rev = 3
          /\ ~Bypass(req[p].path)
          /\ req[p].host = UNSET )
        => /\ out[p].kind = "redirect"
           /\ out[p].location = <<"h","t","t","p","s",":","/","/">> \o BASE_HOST \o req[p].path
           /\ out[p].tenantHdr = UNSET

\* C17: a list of tenant ids that GET answered, over either collection and
\* any store, has no entry equal to 'www' or to the first label of the base
\* domain, compared without regard to letter case.
C17_DirectoryExcludesReserved ==
    \A p \in Procs :
        (pc[p] = "json" /\ body[p] # MALFORMED)
        => \A t \in body[p] :
              /\ toLowerCase(t) # www
              /\ toLowerCase(t) # toLowerCase(FirstLabel(StripProtocol(BASE_HOST)))

\* C18: when the store cannot be read, GET answers with a status that is not
\* OK and without a tenantIds list, and the lookup that receives this answer
\* ends as a failed refresh: it returns the snapshot it has, or [], and
\* leaves cachedTenantIds and lastFetchTimestamp as they are.
C18_StoreFailureIsAFailedRefresh ==
    [][ \A p \in Procs :
          (~storeUp /\ pc[p] = "fetch" /\ pc'[p] # "fetch")
          => /\ ~Ok(GET.status)
             /\ GET.tenantIds = MALFORMED
             /\ pc'[p] = "done"
             /\ out'[p].lookup = "failed"
             /\ out'[p].validTenants = (IF cachedTenantIds = NULL THEN {} ELSE cachedTenantIds)
             /\ Snapshot' = Snapshot ]_vars

C18_Witness ==
    \E p \in Procs :
        /\ JustDone(p)
        /\ ~storeUp
        /\ out[p].lookup = "failed"
        /\ out[p].validTenants = {acme}
        /\ cachedTenantIds = {acme}
        /\ clock - lastFetchTimestamp >= CACHE_DURATION_MS

\* C16: every request that starts a directory fetch is answered in the end,
\* with a forward or a redirect, even when the fetch is never answered.
C16_EveryRequestAnswered ==
    \A p \in Procs : (pc[p] = "fetch") ~> (pc[p] = "done" /\ out[p].kind \in {"next", "redirect"})

\* the request of slot p, had it been sent with Host: BASE_HOST
WithBaseHost(p) == [req[p] EXCEPT !.host = BASE_HOST]

\* C15 amended: a request that is not bypassed and has no Host header is
\* answered exactly like the same request with Host: BASE_HOST, lookup
\* included; where BASE_HOST carries no port that is the base-domain answer of
\* revisions 2 and 3: forwarded, x-tenant-id removed, no lookup.
C15_MissingHostIsBaseHost ==
    \A p \in Procs :
        ( /\ JustDone(p)
          /\ ~Bypass(req[p].path)
          /\ req[p].host = UNSET )
        => /\ out[p] = Respond(WithBaseHost(p), out[p].lookup, out[p].validTenants)
           /\ (out[p].lookup = "none") = ~NeedsLookup(Hostname(WithBaseHost(p)))
           /\ (rev \in {2, 3} /\ StripPort(BASE_HOST) = BASE_HOST)
              => /\ out[p].kind = "next"
                 /\ out[p].tenantHdr = UNSET
                 /\ out[p].lookup = "none"

C15_Witness ==
    \E p \in Procs :
        /\ JustDone(p)
        /\ rev = 3
        /\ req[p].host = UNSET
        /\ req[p].path = <<"/","d">>
        /\ req[p].tenantHdr = <<"e","v","i","l">>
        /\ out[p].kind = "next"
        /\ out[p].tenantHdr = UNSET
        /\ cachedTenantIds = {acme}

\* a host of a development workspace or of the configured preview deployment
EphemeralHost(h) ==
    \/ endsWith(h, <<"c","l","o","u","d","w","o","r","k","s","t","a","t","i","o","n","s",".","d","e","v">>)
    \/ endsWith(h, <<"a","p","p",".","i","d","x",".","d","e","v">>)
    \/ /\ NEXT_PUBLIC_VERCEL_URL # UNSET
       /\ endsWith(h, NEXT_PUBLIC_VERCEL_URL)

\* C19: a request that is not bypassed and whose Host, the port suffix
\* stripped, ends with cloudworkstations.dev, app.idx.dev or the configured
\* preview URL is handled as a request to the base domain: forwarded without
\* x-tenant-id, never redirected (revisions 2, 3).
C19_EphemeralHostIsBaseDomain ==
    \A p \in Procs :
        ( /\ JustDone(p)
          /\ rev \in {2, 3}
          /\ ~Bypass(req[p].path)
          /\ req[p].host # UNSET
          /\ EphemeralHost(StripPort(req[p].host)) )
        => /\ out[p].kind = "next"
           /\ out[p].tenantHdr = UNSET

C21_BodyWithoutListIsAFailedRefresh ==
    [][ \A p \in Procs :
          (pc[p] = "json" /\ body[p] = MALFORMED /\ pc'[p] # "json")
          => /\ Snapshot' = Snapshot
             /\ pc'[p] = "done"
             /\ out'[p].lookup = "failed"
             /\ out'[p].validTenants = (IF cachedTenantIds = NULL THEN {} ELSE cachedTenantIds) ]_vars

C21_Witness ==
    \E p \in Procs :
        /\ JustDone(p)
        /\ out[p].lookup = "failed"
        /\ out[p].validTenants = {acme}
        /\ cachedTenantIds = {acme}
        /\ clock - lastFetchTimestamp >= CACHE_DURATION_MS
        /\ directory = {}

\* C22: a refresh that succeeds with the empty list stores it as the
\* snapshot, with the timestamp of that lookup, in place of the one before;
\* while that snapshot is younger than CACHE_DURATION_MS every lookup is a
\* hit on it: no fetch, no tenant resolves, revision 3 redirects.
C22_EmptySnapshotIsASnapshot ==
    [][ \A p \in Procs :
          /\ (RefreshSucceeds(p) /\ body[p] = {})
             => cachedTenantIds' = {} /\ lastFetchTimestamp' = now[p]
          /\ ( /\ ReceivesLookup(p)
               /\ cachedTenantIds = {}
               /\ clock - lastFetchTimestamp < CACHE_DURATION_MS )
             => /\ pc'[p] = "done"
                /\ out'[p].lookup = "hit"
                /\ out'[p].validTenants = {}
                /\ out'[p].tenantHdr = UNSET
                /\ (rev = 3 /\ Candidate(Hostname(req'[p])) # UNSET)
                   => out'[p].kind = "redirect"
                /\ Snapshot' = Snapshot ]_vars

C22_Witness ==
    \E p \in Procs :
        /\ JustDone(p)
        /\ rev = 3
        /\ out[p].lookup = "hit"
        /\ cachedTenantIds = {}
        /\ clock - lastFetchTimestamp = TickMs
        /\ CandidateOfSlot(p) = acme
        /\ acme \in directory
        /\ out[p].kind = "redirect"

\* C23: revisions 1 and 2 answer no request with a redirect; a request that
\* is not bypassed and whose subdomain is not in the valid set is forwarded
\* with x-tenant-id removed.
C23_EarlyRevisionsNeverRedirect ==
    \A p \in Procs :
        (JustDone(p) /\ rev \in {1, 2})
        => /\ out[p].kind = "next"
           /\ ( /\ ~Bypass(req[p].path)
                /\ CandidateOfSlot(p) = UNSET \/ CandidateOfSlot(p) \notin out[p].validTenants )
              => out[p].tenantHdr = UNSET

C23_Witness ==
    \E p \in Procs :
        /\ JustDone(p)
        /\ rev = 2
        /\ req[p].host = TenantHost(beta, NEXT_PUBLIC_BASE_URL)
        /\ req[p].tenantHdr = <<"e","v","i","l">>
        /\ CandidateOfSlot(p) = beta
        /\ out[p].validTenants = {acme}
        /\ out[p].kind = "next"
        /\ out[p].tenantHdr = UNSET

\* C24: the follow-up of a redirect (host of the Location, same path) is not
\* answered with a redirect again, whatever BASE_HOST is configured.
C24_RedirectFollowedOnce ==
    [][ \A p \in Procs : FollowsRedirect(p) => out'[p].kind # "redirect" ]_vars

\* C25: a request that is not bypassed is forwarded with x-tenant-id t only
\* when its normalized host is t, a dot and BASE_HOST, and nothing else.
C25_TenantOnlyForExactSuffix ==
    \A p \in Procs :
        (JustDone(p) /\ ~Bypass(req[p].path) /\ out[p].tenantHdr # UNSET)
        => Hostname(req[p]) = out[p].tenantHdr \o <<".">> \o BASE_HOST

\* C26: whatever the order in which overlapping refreshes complete,
\* lastFetchTimestamp never decreases, and a refresh whose lookup started
\* before the lookup that stored the snapshot leaves the snapshot alone.
C26_SnapshotNeverGoesBack ==
    [][ /\ lastFetchTimestamp' >= lastFetchTimestamp
        /\ \A p \in Procs :
              (RefreshSucceeds(p) /\ now[p] < lastFetchTimestamp)
              => Snapshot' = Snapshot ]_vars

\* C27: a refresh that fails leaves lastFetchTimestamp where it was; a lookup
\* that finds the snapshot absent or expired starts a fetch, and one that
\* finds a snapshot stored less than CACHE_DURATION_MS ago starts none.
C27_FailureIsRetried ==
    [][ \A p \in Procs :
          /\ RefreshFails(p) => lastFetchTimestamp' = lastFetchTimestamp
          /\ ReceivesLookup(p)
             => IF \/ cachedTenantIds = NULL
                   \/ clock - lastFetchTimestamp >= CACHE_DURATION_MS
                THEN pc'[p] = "fetch"
                ELSE pc'[p] = "done" /\ out'[p].lookup = "hit" ]_vars

\* a lookup has failed, the next one has fetched again and succeeded
C27_Witness ==
    \E p, q \in Procs :
        /\ workload = "overlap"
        /\ p # q
        /\ pc[p] = "done" /\ out[p].lookup = "failed" /\ out[p].validTenants = {}
        /\ JustDone(q) /\ out[q].lookup = "refreshed"
        /\ lastFetchTimestamp = clock
        /\ clock > StartClock

\* C28: a user document changes only in a call by an administrator with a
\* non-empty tenantId whose target, as the call read it, exists with that
\* tenantId, and only the target changes; such a call returns, every other
\* call throws, and a call that throws changes no document.
C28_OnlyOwnOrganisationIsWritten ==
    [][ /\ \A u \in UserIds :
              users'[u] # users[u]
              => \E c \in Sessions :
                    /\ Returns(c)
                    /\ calls[c].userId = u
                    /\ Permitted(calls[c])
        /\ \A c \in Sessions :
              /\ Throws(c) => users' = users /\ ~Permitted(calls'[c])
              /\ Returns(c)
                 => /\ Permitted(calls[c])
                    /\ users'[calls[c].userId] =
                          IF calls[c].op = "delete" THEN NoDoc
                          ELSE setDocMerge(users[calls[c].userId], calls[c].data) ]_vars

\* an administrator of acme was refused the user of beta that session s2 then
\* saw it delete its own user
C28_Witness ==
    /\ calls["s1"].pc = "thrown"
    /\ calls["s1"].adminUser = [present |-> TRUE, tenantId |-> acme]
    /\ calls["s1"].userId = "u2"
    /\ calls["s1"].snap = UserDoc(beta, ana)
    /\ users["u2"] = UserDoc(beta, ana)
    /\ calls["s2"].pc = "returned"
    /\ calls["s2"].op = "delete"
    /\ users["u1"] = NoDoc

\* C29: when updateUserInFirestore returns, the target user is still in the
\* organisation of the administrator who called it.
C29_UpdateKeepsTenant ==
    [][ \A c \in Sessions :
          (Returns(c) /\ calls[c].op = "update")
          => users'[calls[c].userId].tenantId = calls[c].adminUser.tenantId ]_vars

\* C30: the status is calculated by the first test that applies, in this
\* order: no license or no status or 'not_configured'; cancelled; expiry
\* before today; more users than a positive maxUsersAllowed; active or trial;
\* and 'not_configured' for what is left.
C30_LicenseStatusPrecedence ==
    effectiveLicenseStatus # "pending"
    => LET l == licenseInfo
           missing == ~l.present \/ l.status \in {"<undefined>", "", "not_configured"}
           cancelled == l.status = "cancelled"
           expired == l.expiryDate.type = "date" /\ l.expiryDate.n < today
           over == /\ l.maxUsersAllowed.type = "number" /\ l.maxUsersAllowed.n > 0
                   /\ userCount.type = "number" /\ userCount.n > l.maxUsersAllowed.n
           valid == l.status \in {"active", "trial"}
       IN  /\ missing => effectiveLicenseStatus = "no_license"
           /\ (~missing /\ cancelled) => effectiveLicenseStatus = "cancelled"
           /\ (~missing /\ ~cancelled /\ expired) => effectiveLicenseStatus = "expired"
           /\ (~missing /\ ~cancelled /\ ~expired /\ over)
              => effectiveLicenseStatus = "limit_reached"
           /\ (~missing /\ ~cancelled /\ ~expired /\ ~over /\ valid)
              => effectiveLicenseStatus \in {"active", "trial"}
           /\ (~missing /\ ~cancelled /\ ~expired /\ ~over /\ ~valid)
              => effectiveLicenseStatus = "not_configured"
           /\ (valid /\ (expired \/ over))
              => effectiveLicenseStatus \notin {"active", "trial"}

\* a trial license with users to spare has run out since the day before
C30_Witness ==
    /\ effectiveLicenseStatus = "expired"
    /\ licenseInfo.status = "trial"
    /\ licenseInfo.expiryDate = DateOn(1)
    /\ licenseInfo.maxUsersAllowed = Number(MaxUsers)
    /\ userCount = Number(1)
    /\ today = 2

\* C31 as stated: while loading or not loaded the skeleton is rendered; with
\* a license problem the content is rendered when 'gestionar-licencia' is
\* among the user's permissions and the path is /settings/license, and the
\* access-denied block otherwise.
C31_LicenseGateListedPermission ==
    \A pathname \in Pathnames :
        /\ (loading \/ ~isUserDataLoaded) => Rendered(pathname) = "skeleton"
        /\ LicenseProblem
           => Rendered(pathname) =
                 IF gestionar_licencia \in userPermissions /\ pathname = settings_license
                 THEN "content" ELSE "denied"

\* C31 as amended: the same, with the permission held when 'gestionar-licencia'
\* or 'admin' is among the user's permissions.
C31_LicenseGate ==
    \A pathname \in Pathnames :
        /\ (loading \/ ~isUserDataLoaded) => Rendered(pathname) = "skeleton"
        /\ LicenseProblem
           => Rendered(pathname) =
                 IF /\ gestionar_licencia \in userPermissions \/ "admin" \in userPermissions
                    /\ pathname = settings_license
                 THEN "content" ELSE "denied"

\* an 'admin' of a tenant without license is let in on the license page only
C31_Witness ==
    /\ LicenseProblem
    /\ userPermissions = {"admin"}
    /\ effectiveLicenseStatus = "no_license"
    /\ Rendered(settings_license) = "content"
    /\ Rendered("/pipeline") = "denied"

\* C32: when the callbacks have finished with a user signed in and loaded,
\* effectiveLicenseStatus is not 'pending'.
C32_LoadedUserHasLicenseStatus ==
    (AllFinished /\ isUserDataLoaded /\ currentUser.present)
    => effectiveLicenseStatus # "pending"

\* C33: after an auth-state change the provider comes to loading = false and
\* isUserDataLoaded = true, a failed read included: when no callback is left
\* to run, which is when nothing further will change them, both hold.
C33_CallbacksEndLoaded ==
    Quiet => (~loading /\ isUserDataLoaded)

\* C34: when every callback has finished, currentUser, userPermissions and
\* the license status are those of the user of the last auth event, and
\* nobody's after a sign-out; and isUserDataLoaded is not true while the
\* callback of the last event is running.
C34_LastEventWins ==
    /\ AllFinished
       => /\ currentUser.present => currentUser.id = firebaseUser
          /\ firebaseUser = NoUid
             => /\ userPermissions = {}
                /\ licenseInfo = NoLicense
                /\ effectiveLicenseStatus = "pending"
    /\ (latest # "none" /\ Running(latest)) => ~isUserDataLoaded

\* C35: a call of signup that has thrown leaves no account it created, and
\* the account created by a call that has ended has a users document with
\* the tenantId of the administrator.
C35_SignupAllOrNothing ==
    \A c \in Sessions :
        /\ signups[c].pc = "thrown" => signups[c].uc \notin accounts
        /\ (signups[c].pc \in {"returned", "thrown"} /\ signups[c].uc \in accounts)
           => /\ users[signups[c].uc].exists
              /\ users[signups[c].uc].tenantId = signups[c].admin.tenantId

\* C36: on the pipeline page every lead in the page state has the tenantId
\* of the current user; the document handleSaveLead has written carries the
\* tenantId of the current user, whatever leadData held; and without a
\* current user or without tenantId no getDocs is awaited, no lead is loaded
\* and no setDoc is awaited or done.
C36_PipelineKeepsTenant ==
    page.route = "/pipeline"
    => /\ \A l \in leads : currentUser.present /\ l.tenantId = currentUser.tenantId
       /\ saveLead.pc = "written"
          => /\ db["leads"][saveLead.leadId].exists
             /\ db["leads"][saveLead.leadId].tenantId = currentUser.tenantId
       /\ ~HasTenant(currentUser)
          => /\ fetches["leads"] = 0
             /\ leads = {}
             /\ saveLead.pc \in {"idle", "returned"}

\* a user of acme has loaded leads while beta has a lead too, and has saved
\* a lead whose data named beta
C36_Witness ==
    /\ page.route = "/pipeline"
    /\ currentUser.tenantId = acme
    /\ leads # {}
    /\ \E d \in DocIds : db["leads"][d] = Record(beta)
    /\ saveLead.pc = "written"
    /\ saveLead.leadData.tenantId = beta

\* C37: on the invoices page every invoice, order and lead in the page state
\* has the tenantId of the current user.
C37_InvoicesOfOwnTenant ==
    page.route = "/invoices"
    => \A r \in invoices \cup orders \cup leads :
           currentUser.present /\ r.tenantId = currentUser.tenantId

=============================================================================
